---- MODULE Spec2Model ----
(***************************************************************************)
(* Model of the metrics collection engine of azure-cost-exporter:          *)
(*   internal/collector/cost_collector.go  (CostCollector: scheduler,      *)
(*                                          refresh, store, Collect,       *)
(*                                          label projection)              *)
(*   internal/azure/cost_client.go         (Client.QueryCosts, the retry   *)
(*                                          of one subscription and        *)
(*                                          parseResponse)                 *)
(*   internal/server/server.go             (handleHealth, handleReady,     *)
(*                                          handleIndex)                   *)
(*   internal/config/config.go             (Load: defaults, environment    *)
(*                                          overrides, validate)           *)
(*                                                                         *)
(* Threads 1..MaxStarts are calls of StartBackgroundRefresh; a call that   *)
(* wins the atomic flag runs the initial refresh and then continues as the *)
(* background goroutine of that call.  Readers are one Prometheus scrape   *)
(* (Collect), one /ready request and one index-page request at a time,     *)
(* each repeated for ever.                                                 *)
(*                                                                         *)
(* Specifications:                                                         *)
(*   Spec          the scheduler, one step per account query               *)
(*   SpecTicks     Spec with the ticks the ticker drops while one is       *)
(*                 buffered                                                *)
(*   SpecCollect   Spec with scrapes                                       *)
(*   SpecProbes    Spec with /ready and index-page requests                *)
(*   SpecRetry     one QueryCosts call, attempt by attempt, with a clock   *)
(*   SpecShutdown  the scheduler, attempt by attempt, with fairness        *)
(*   SpecStored    scrapes of a collector that holds given records         *)
(*   SpecLabels    buildMetricLabels and extractLabelValues on given       *)
(*                 configurations and records                              *)
(*   SpecScrape    Spec with a scrape followed send by send into a bounded *)
(*                 channel                                                 *)
(*   SpecHealth    Spec with /health requests                              *)
(*   SpecReady     Spec with /ready requests                               *)
(*   SpecConfig    Load on given files and environments, and the label     *)
(*                 names NewCostCollector builds from the result           *)
(*   SpecParse     parseResponse on given query results                    *)
(***************************************************************************)
EXTENDS Integers, Sequences, FiniteSets, TLC

\* ------------------------------------------------------------------ bounds
\* Number of groups of a group_by configuration.
MaxGroups == 2
\* Clock ticks per second in the timed model of the retry.
Second == 2
\* Attempts per account where the retry is followed without its clock.
MaxAttempts == 2
\* Number of StartBackgroundRefresh calls made over a run.
MaxStarts == 2
\* Number of provider QueryCosts calls (refresh cycles) over a run.
MaxCycles == 2
\* Number of ticks a ticker fires where dropped ticks are counted.
MaxTicks == 3
\* The cap of cost_collector.go:20 (100000 in the program), scaled down so
\* that a response can exceed it.
MaxRecordsToCache == 2
\* Capacity of the channel a Collect call sends its metrics on.
ChanCap == 1

\* ------------------------------------------------------- values and config
\* A nil error, and the zero time.Time.
Nil == "nil"
ZeroTime == 0

\* config.Config as far as the engine reads it.
cfg ==
  [ Subscriptions |-> << [ID |-> "id-a", Name |-> "sub-a"],
                         [ID |-> "id-b", Name |-> "sub-b"] >>,
    GroupByEnabled |-> TRUE,
    Groups |-> << [LabelName |-> "resource_group"] >>,
    Currency |-> "$",
    APITimeout |-> 30 ]

NumSubs == Len(cfg.Subscriptions)

\* provider.CostRecord; Cost is in cents.
CostRecord(sub, service, group, cost) ==
  [ Date |-> "2024-01-01", Provider |-> "azure",
    AccountID |-> sub.ID, AccountName |-> sub.Name,
    Service |-> service, Cost |-> cost, Currency |-> cfg.Currency,
    ResourceType |-> "", ResourceGroup |-> group, ResourceLocation |-> "",
    ResourceID |-> "", ResourceName |-> "",
    MeterCategory |-> "", MeterSubCategory |-> "",
    ChargeType |-> "", PricingModel |-> "" ]

\* What one account's query can return on success: no rows, and for the first
\* subscription two rows that share a label tuple, for the others more rows
\* than the cap.
Responses(sub) ==
  { << >>,
    IF sub = cfg.Subscriptions[1]
      THEN << CostRecord(sub, "Storage", "rg1", 1234),
              CostRecord(sub, "Storage", "rg1", 4567) >>
      ELSE [i \in 1..(MaxRecordsToCache + 1) |->
              CostRecord(sub, "Compute", "rg2", 1000)] }

\* Causes of a failed attempt: ctx.Err() of a cancelled context, and any error
\* of the Cost Management API (timeout of the call included).
ContextCanceled == "context canceled"
ApiError == "api error"

\* queryCostsForSubscription: the error it returns,
\* "subscription %s (ID: %s) failed after retries: %w".
WrapRetryError(sub, cause) == [Name |-> sub.Name, ID |-> sub.ID, cause |-> cause]

\* Outcome of queryCostsForSubscription for one account: terminal failure or
\* the rows of the successful attempt.  An attempt started on a cancelled
\* context fails, and the retry returns the context's error.
Failed(cause) == [ok |-> FALSE, rows |-> << >>, cause |-> cause]
SubOutcomes(sub, done) ==
  IF done
    THEN {Failed(ContextCanceled)}
    ELSE {Failed(ApiError)} \cup {[ok |-> TRUE, rows |-> r, cause |-> Nil] : r \in Responses(sub)}

\* ------------------------------------------------------------ pure helpers
RECURSIVE JoinFrom(_, _, _)
JoinFrom(vals, sep, i) ==
  IF i > Len(vals) THEN ""
  ELSE IF i = Len(vals) THEN vals[i]
  ELSE vals[i] \o sep \o JoinFrom(vals, sep, i + 1)

\* strings.Join
Join(vals, sep) == JoinFrom(vals, sep, 1)

\* Variant: the groups are added whether group_by is enabled or not.
buildMetricLabelsAlways(c) ==
  << "provider", "account_name", "account_id", "service" >>
  \o [i \in 1..Len(c.Groups) |-> c.Groups[i].LabelName]
  \o << "date", "currency" >>

buildMetricLabels(c) ==
  << "provider", "account_name", "account_id", "service" >>
  \o (IF c.GroupByEnabled
        THEN [i \in 1..Len(c.Groups) |-> c.Groups[i].LabelName]
        ELSE << >>)
  \o << "date", "currency" >>

labelValue(record, labelName) ==
  CASE labelName = "provider" -> record.Provider
    [] labelName = "account_name" -> record.AccountName
    [] labelName = "account_id" -> record.AccountID
    [] labelName = "service" -> record.Service
    [] labelName = "resource_type" -> record.ResourceType
    [] labelName = "resource_group" -> record.ResourceGroup
    [] labelName = "resource_location" -> record.ResourceLocation
    [] labelName = "resource_id" -> record.ResourceID
    [] labelName = "resource_name" -> record.ResourceName
    [] labelName = "meter_category" -> record.MeterCategory
    [] labelName = "meter_subcategory" -> record.MeterSubCategory
    [] labelName = "charge_type" -> record.ChargeType
    [] labelName = "pricing_model" -> record.PricingModel
    [] labelName = "date" -> record.Date
    [] labelName = "currency" -> record.Currency
    [] OTHER -> ""

extractLabelValues(record, labelNames) ==
  [i \in 1..Len(labelNames) |-> labelValue(record, labelNames[i])]

costMetricLabelNames == buildMetricLabels(cfg)

labelKey(record) == Join(extractLabelValues(record, costMetricLabelNames), "|")

RECURSIVE SumCost(_, _, _)
SumCost(records, key, i) ==
  IF i > Len(records) THEN 0
  ELSE (IF labelKey(records[i]) = key THEN records[i].Cost ELSE 0)
       + SumCost(records, key, i + 1)

\* Index of the last record with this key: its label values are the ones the
\* map entry ends up with.
LastWithKey(records, key) ==
  CHOOSE i \in 1..Len(records) :
    /\ labelKey(records[i]) = key
    /\ \A j \in (i + 1)..Len(records) : labelKey(records[j]) # key

\* The cost series of one Collect call: one entry per key of the costs map.
Aggregate(records) ==
  { [ labelValues |-> extractLabelValues(records[LastWithKey(records, key)],
                                          costMetricLabelNames),
      cost |-> SumCost(records, key, 1) ] :
    key \in {labelKey(records[i]) : i \in 1..Len(records)} }

\* Collect: upValue.
upValue(st) == IF st.lastError = Nil /\ Len(st.lastRecords) > 0 THEN 1 ELSE 0

\* Everything one Collect call emits, from the fields of the store st.
Emitted(st) ==
  [ series |-> Aggregate(st.lastRecords),
    up |-> upValue(st),
    duration |-> st.lastScrapeDuration,
    errorsTotal |-> st.scrapeErrorsTotal,
    lastScrape |-> st.lastScrape,
    recordCount |-> Len(st.lastRecords) ]

\* Variant: failed subscriptions are never escalated to an error.
QueryCostsResultNoError(allRecords, errors) ==
  [records |-> allRecords, err |-> Nil]

\* Client.QueryCosts, after the loop over the subscriptions.
QueryCostsResult(allRecords, errors) ==
  IF Len(errors) > 0 /\ Len(allRecords) = 0
    THEN [records |-> << >>, err |-> "all subscriptions failed"]
    ELSE [records |-> allRecords, err |-> Nil]

\* Variant: no memory limit.
TruncateNone(records) == records

\* refresh: enforce the memory limit.
Truncate(records) ==
  IF Len(records) > MaxRecordsToCache
    THEN SubSeq(records, 1, MaxRecordsToCache)
    ELSE records

\* -------------------------------------------------------------------- state
Threads == 1..MaxStarts

VARIABLES
  store,           \* the fields guarded by mu, and the error counter
  mu,              \* sync.RWMutex: w = writer thread or 0, r = readers holding it
  refreshStarted,  \* atomic.Bool
  ctxDone,         \* the context has been cancelled
  now,             \* the clock
  pc,              \* position of each StartBackgroundRefresh call / goroutine
  looping,         \* the call has spawned its goroutine
  tickPending,     \* a tick is buffered in ticker.C of the goroutine
  tickerOn,        \* the ticker exists and has not been stopped
  rf,              \* locals of the refresh each thread is running
  queryCalls,      \* number of cloudProvider.QueryCosts calls so far
  maxInFlight,     \* high-water mark of concurrent QueryCosts calls
  count,           \* history: per call, the ticks its ticker has fired and
                   \* the refresh cycles it has started
  snaps,           \* history: the store after construction and after each cycle,
                   \* with what a Collect call emits from it
  cpc, collectOut, \* the scrape: position, and what the last Collect emitted
  rpc, readyReq,   \* the /ready request: position, values read, response
  ipc, indexReq,   \* the index-page request: position, values read
  scrape,          \* a Collect call followed send by send: its position, the
                   \* entries of the costs map left to send, the channel it
                   \* sends on and what the consumer has received from it
  healthReq,       \* the /health request: position and response
  qc,              \* a QueryCosts call followed attempt by attempt: its locals
  bo,              \* ... and the retry of the account it is querying
  fn               \* a pure function applied to an argument, and its result

vars == << store, mu, refreshStarted, ctxDone, now, pc, looping, tickPending,
           tickerOn, rf, queryCalls, maxInFlight, count, snaps, cpc, collectOut,
           rpc, readyReq, ipc, indexReq, scrape, healthReq, qc, bo, fn >>

schedVars == << refreshStarted, ctxDone, pc, looping, tickPending, tickerOn,
                rf, queryCalls, maxInFlight, count >>
readerVars == << cpc, collectOut, rpc, readyReq, ipc, indexReq, scrape,
                healthReq >>
unitVars == << qc, bo, fn >>

\* No QueryCosts call is being followed; no retry is running; no function
\* has been applied.
NoQuery ==
  [ pc |-> "idle", idx |-> 0, allRecords |-> << >>, errors |-> << >>,
    ret |-> [records |-> << >>, err |-> Nil] ]
NoRetry ==
  [ pc |-> "idle", elapsed |-> 0, currentInterval |-> 0, next |-> 0,
    attempts |-> 0, out |-> Failed(Nil), last |-> Nil, result |-> << >>,
    exit |-> "" ]
NoCall == [name |-> "", arg |-> << >>, res |-> << >>]

\* No Collect call is being followed, and no /health request has been made.
NoScrape ==
  [ pc |-> "idle", costs |-> {}, buf |-> << >>, gathered |-> << >>,
    returned |-> FALSE ]
NoHealth == [pc |-> "idle", status |-> 0, body |-> "", during |-> "none"]

\* The locals of refresh and QueryCosts; unit is the retry of the account
\* being queried where it is followed attempt by attempt; ctxAtStart is
\* history: whether the context was already cancelled when the cycle began.
NoRefresh ==
  [ start |-> 0, idx |-> 0, allRecords |-> << >>, errors |-> << >>,
    received |-> 0, records |-> << >>, err |-> Nil, duration |-> 0,
    ctxAtStart |-> FALSE, unit |-> NoRetry ]

\* NewCostCollector
NewStore ==
  [ lastRecords |-> << >>, lastError |-> Nil, lastScrape |-> ZeroTime,
    lastScrapeDuration |-> 0, isReady |-> FALSE, scrapeErrorsTotal |-> 0 ]

NoCycle ==
  [ err |-> Nil, failed |-> 0, succeeded |-> 0, rows |-> 0, received |-> 0,
    errors |-> << >>, ctxAtStart |-> FALSE ]

\* The collector after NewCostCollector, before any call.
InitCollector ==
  /\ store = NewStore
  /\ mu = [w |-> 0, r |-> {}]
  /\ refreshStarted = FALSE
  /\ ctxDone = FALSE
  /\ now = 1
  /\ pc = [k \in Threads |-> "idle"]
  /\ looping = [k \in Threads |-> FALSE]
  /\ tickPending = [k \in Threads |-> FALSE]
  /\ tickerOn = [k \in Threads |-> FALSE]
  /\ rf = [k \in Threads |-> NoRefresh]
  /\ queryCalls = 0
  /\ maxInFlight = 0
  /\ count = [k \in Threads |-> [ticks |-> 0, cycles |-> 0]]
  /\ snaps = << [store |-> NewStore, emitted |-> Emitted(NewStore),
                 cycle |-> NoCycle] >>
  /\ cpc = "idle"
  /\ collectOut = << >>
  /\ rpc = "idle"
  /\ readyReq = [reads |-> << >>, status |-> 0, body |-> ""]
  /\ ipc = "idle"
  /\ indexReq = [reads |-> << >>, done |-> FALSE]
  /\ scrape = NoScrape
  /\ healthReq = NoHealth
  /\ qc = NoQuery
  /\ bo = NoRetry

Init == InitCollector /\ fn = NoCall

\* Number of QueryCosts calls in flight when the threads are at positions p.
InFlight(p) == Cardinality({k \in Threads : p[k] = "query"})

Max(a, b) == IF a >= b THEN a ELSE b

\* Thread k is inside refresh.
Refreshing(k) ==
  pc[k] \in {"query", "lock", "wScrape", "wDuration", "wError", "wRecords", "wReady"}

\* ---------------------------------------------------------------- scheduler
\* refresh, up to the call of cloudProvider.QueryCosts.
BeginRefresh(k) ==
  /\ queryCalls < MaxCycles
  /\ pc' = [pc EXCEPT ![k] = "query"]
  /\ rf' = [rf EXCEPT ![k] = [NoRefresh EXCEPT !.start = now, !.idx = 1,
                                               !.ctxAtStart = ctxDone]]
  /\ queryCalls' = queryCalls + 1
  /\ maxInFlight' = Max(maxInFlight, InFlight(pc'))
  /\ count' = [count EXCEPT ![k].cycles = @ + 1]

\* Variant: the flag is set without being tested.
CompareAndSwapUnguarded(old, new) == TRUE

\* refreshStarted.CompareAndSwap(old, new): whether it swaps.
CompareAndSwap(old, new) == refreshStarted = old

\* Variant: a call that finds the flag set still runs one refresh.
StartBackgroundRefreshAlways(k) ==
  /\ pc[k] = "idle"
  /\ \A j \in Threads : j < k => pc[j] # "idle"
  /\ refreshStarted' = TRUE
  /\ BeginRefresh(k)
  /\ UNCHANGED << store, mu, ctxDone, now, looping, tickPending, tickerOn,
                  snaps, readerVars, unitVars >>

\* Variant: the initial fetch is left to the goroutine, and the call returns
\* without it.
StartBackgroundRefreshAsync(k) ==
  /\ pc[k] = "idle"
  /\ \A j \in Threads : j < k => pc[j] # "idle"
  /\ IF CompareAndSwap(FALSE, TRUE)
       THEN /\ refreshStarted' = TRUE
            /\ pc' = [pc EXCEPT ![k] = "spawn"]
       ELSE /\ pc' = [pc EXCEPT ![k] = "skipped"]
            /\ UNCHANGED refreshStarted
  /\ UNCHANGED << store, mu, ctxDone, now, looping, tickPending, tickerOn,
                  rf, queryCalls, maxInFlight, count, snaps, readerVars, unitVars >>

\* StartBackgroundRefresh: the flag, then the initial fetch.
StartBackgroundRefresh(k) ==
  /\ pc[k] = "idle"
  /\ \A j \in Threads : j < k => pc[j] # "idle"
  /\ IF CompareAndSwap(FALSE, TRUE)
       THEN /\ refreshStarted' = TRUE
            /\ BeginRefresh(k)
       ELSE /\ pc' = [pc EXCEPT ![k] = "skipped"]
            /\ UNCHANGED << refreshStarted, rf, queryCalls, maxInFlight, count >>
  /\ UNCHANGED << store, mu, ctxDone, now, looping, tickPending, tickerOn,
                  snaps, readerVars, unitVars >>

\* StartBackgroundRefresh after the initial fetch: create the ticker, start
\* the goroutine and return.
Spawn(k) ==
  /\ pc[k] = "spawn"
  /\ tickerOn' = [tickerOn EXCEPT ![k] = TRUE]
  /\ looping' = [looping EXCEPT ![k] = TRUE]
  /\ pc' = [pc EXCEPT ![k] = "select"]
  /\ UNCHANGED << store, mu, refreshStarted, ctxDone, now, tickPending, rf,
                  queryCalls, maxInFlight, count, snaps, readerVars, unitVars >>

\* select with no case ready: the goroutine parks on both channels.
LoopPark(k) ==
  /\ pc[k] = "select"
  /\ ~tickPending[k]
  /\ ~ctxDone
  /\ pc' = [pc EXCEPT ![k] = "parked"]
  /\ UNCHANGED << store, mu, refreshStarted, ctxDone, now, looping, tickPending,
                  tickerOn, rf, queryCalls, maxInFlight, count, snaps, readerVars, unitVars >>

\* The runtime timer sends a tick: to the goroutine parked in select, which
\* then runs the ticker.C case, and otherwise into ticker.C, which holds one
\* tick (further ones are dropped).
TimerFire(k) ==
  /\ tickerOn[k]
  /\ ~tickPending[k]
  /\ IF pc[k] = "parked"
       THEN /\ queryCalls < MaxCycles
            /\ pc' = [pc EXCEPT ![k] = "ticked"]
            /\ UNCHANGED tickPending
       ELSE /\ tickPending' = [tickPending EXCEPT ![k] = TRUE]
            /\ UNCHANGED pc
  /\ count' = [count EXCEPT ![k].ticks = @ + 1]
  /\ UNCHANGED << store, mu, refreshStarted, ctxDone, now, looping,
                  tickerOn, rf, queryCalls, maxInFlight, snaps, readerVars, unitVars >>

\* The runtime timer finds ticker.C full: the tick is dropped.
TimerDrop(k) ==
  /\ tickerOn[k]
  /\ tickPending[k]
  /\ count[k].ticks < MaxTicks
  /\ count' = [count EXCEPT ![k].ticks = @ + 1]
  /\ UNCHANGED << store, mu, refreshStarted, ctxDone, now, pc, looping,
                  tickPending, tickerOn, rf, queryCalls, maxInFlight, snaps,
                  readerVars, unitVars >>

\* Variant: the loop starts a cycle for a tick and leaves the tick in
\* ticker.C.
LoopTickKeepsTick(k) ==
  /\ \/ /\ pc[k] = "select"
        /\ tickPending[k]
     \/ pc[k] = "ticked"
  /\ BeginRefresh(k)
  /\ UNCHANGED << store, mu, refreshStarted, ctxDone, now, looping, tickPending,
                  tickerOn, snaps, readerVars, unitVars >>

\* select: case <-ticker.C, taken by a goroutine that finds a tick in
\* ticker.C or that was woken by one.  select takes any ready case, so the
\* first can happen while ctx.Done() is ready too.
LoopTick(k) ==
  /\ \/ /\ pc[k] = "select"
        /\ tickPending[k]
        /\ tickPending' = [tickPending EXCEPT ![k] = FALSE]
     \/ /\ pc[k] = "ticked"
        /\ UNCHANGED tickPending
  /\ BeginRefresh(k)
  /\ UNCHANGED << store, mu, refreshStarted, ctxDone, now, looping, tickerOn,
                  snaps, readerVars, unitVars >>

\* Variant: the goroutine exits without the deferred Store(false).
LoopStopKeepsFlag(k) ==
  /\ \/ pc[k] = "select" /\ ctxDone
     \/ pc[k] = "stopping"
  /\ tickerOn' = [tickerOn EXCEPT ![k] = FALSE]
  /\ pc' = [pc EXCEPT ![k] = "exited"]
  /\ UNCHANGED << store, mu, refreshStarted, ctxDone, now, looping,
                  tickPending, rf, queryCalls, maxInFlight, count, snaps, readerVars,
                  unitVars >>

\* select: case <-ctx.Done(), taken by a goroutine that finds the context
\* done or that was woken by the cancellation; then the deferred Store(false)
\* and ticker.Stop().
LoopStop(k) ==
  /\ \/ pc[k] = "select" /\ ctxDone
     \/ pc[k] = "stopping"
  /\ refreshStarted' = FALSE
  /\ tickerOn' = [tickerOn EXCEPT ![k] = FALSE]
  /\ pc' = [pc EXCEPT ![k] = "exited"]
  /\ UNCHANGED << store, mu, ctxDone, now, looping, tickPending, rf,
                  queryCalls, maxInFlight, count, snaps, readerVars, unitVars >>

\* Variant: the wait between two attempts is a plain sleep.
WakeRetryNever(b) == b

\* backoff.Retry, select { case <-ctx.Done(): ... case <-t.C(): }: closing
\* ctx.Done() wakes the retry that waits for its timer.
WakeRetry(b) == IF b.pc = "wait" THEN [b EXCEPT !.pc = "woken"] ELSE b

\* main: cancel().  Closing ctx.Done() wakes the goroutines parked in a select
\* on it.
Cancel ==
  /\ ~ctxDone
  /\ ctxDone' = TRUE
  /\ pc' = [k \in Threads |-> IF pc[k] = "parked" THEN "stopping" ELSE pc[k]]
  /\ bo' = WakeRetry(bo)
  /\ rf' = [k \in Threads |-> [rf[k] EXCEPT !.unit = WakeRetry(@)]]
  /\ UNCHANGED << store, mu, refreshStarted, now, looping, tickPending,
                  tickerOn, queryCalls, maxInFlight, count, snaps, readerVars,
                  qc, fn >>

\* ------------------------------------------------------------ refresh cycle
\* Client.QueryCosts: one iteration of the loop over cfg.Subscriptions.
QuerySubscription(k) ==
  /\ pc[k] = "query"
  /\ rf[k].idx <= NumSubs
  /\ \E out \in SubOutcomes(cfg.Subscriptions[rf[k].idx], ctxDone) :
       rf' = [rf EXCEPT ![k] =
                IF out.ok
                  THEN [@ EXCEPT !.idx = @ + 1,
                                 !.allRecords = @ \o out.rows]
                  ELSE [@ EXCEPT !.idx = @ + 1,
                                 !.errors = Append(@, WrapRetryError(cfg.Subscriptions[rf[k].idx],
                                                                     out.cause))]]
  /\ now' = now + 1
  /\ UNCHANGED << store, mu, refreshStarted, ctxDone, pc, looping, tickPending,
                  tickerOn, queryCalls, maxInFlight, count, snaps, readerVars, unitVars >>

\* Variant: refresh returns without touching the store when the context has
\* been cancelled.
QueryCostsReturnUnlessCancelled(k) ==
  /\ pc[k] = "query"
  /\ rf[k].idx > NumSubs
  /\ LET res == QueryCostsResult(rf[k].allRecords, rf[k].errors) IN
       rf' = [rf EXCEPT ![k] = [@ EXCEPT !.received = Len(res.records),
                                         !.records = Truncate(res.records),
                                         !.err = res.err,
                                         !.duration = now - rf[k].start]]
  /\ pc' = [pc EXCEPT ![k] = IF ~ctxDone THEN "lock"
                             ELSE IF looping[k] THEN "select" ELSE "spawn"]
  /\ UNCHANGED << store, mu, refreshStarted, ctxDone, now, looping, tickPending,
                  tickerOn, queryCalls, maxInFlight, count, snaps, readerVars, unitVars >>

\* Client.QueryCosts returns; refresh takes the duration and truncates.
QueryCostsReturn(k) ==
  /\ pc[k] = "query"
  /\ rf[k].idx > NumSubs
  /\ LET res == QueryCostsResult(rf[k].allRecords, rf[k].errors) IN
       rf' = [rf EXCEPT ![k] = [@ EXCEPT !.received = Len(res.records),
                                         !.records = Truncate(res.records),
                                         !.err = res.err,
                                         !.duration = now - rf[k].start]]
  /\ pc' = [pc EXCEPT ![k] = "lock"]
  /\ UNCHANGED << store, mu, refreshStarted, ctxDone, now, looping, tickPending,
                  tickerOn, queryCalls, maxInFlight, count, snaps, readerVars, unitVars >>

\* c.mu.Lock()
Lock(k) ==
  /\ pc[k] = "lock"
  /\ mu.w = 0
  /\ mu.r = {}
  /\ mu' = [mu EXCEPT !.w = k]
  /\ pc' = [pc EXCEPT ![k] = "wScrape"]
  /\ UNCHANGED << store, refreshStarted, ctxDone, now, looping, tickPending,
                  tickerOn, rf, queryCalls, maxInFlight, count, snaps, readerVars, unitVars >>

\* One assignment to a field of the store by the refresh of thread k.
WriteField(k, at, field, value, next) ==
  /\ pc[k] = at
  /\ store' = [store EXCEPT ![field] = value]
  /\ pc' = [pc EXCEPT ![k] = next]
  /\ UNCHANGED << mu, refreshStarted, ctxDone, now, looping, tickPending,
                  tickerOn, rf, queryCalls, maxInFlight, count, snaps, readerVars, unitVars >>

\* Variant: a failed cycle keeps the records already stored.
WriteFieldsKeepOnError(k) ==
  \/ WriteField(k, "wScrape", "lastScrape", now, "wDuration")
  \/ WriteField(k, "wDuration", "lastScrapeDuration", rf[k].duration, "wError")
  \/ WriteField(k, "wError", "lastError", rf[k].err, "wRecords")
  \/ WriteField(k, "wRecords", "lastRecords",
                IF rf[k].err # Nil THEN store.lastRecords ELSE rf[k].records,
                "wReady")

\* Variant: lastError is assigned only when the cycle failed.
WriteFieldsStickyError(k) ==
  \/ WriteField(k, "wScrape", "lastScrape", now, "wDuration")
  \/ WriteField(k, "wDuration", "lastScrapeDuration", rf[k].duration, "wError")
  \/ WriteField(k, "wError", "lastError",
                IF rf[k].err # Nil THEN rf[k].err ELSE store.lastError, "wRecords")
  \/ WriteField(k, "wRecords", "lastRecords", rf[k].records, "wReady")

\* c.lastScrape = c.clock.Now() ... c.lastRecords = records
WriteFields(k) ==
  \/ WriteField(k, "wScrape", "lastScrape", now, "wDuration")
  \/ WriteField(k, "wDuration", "lastScrapeDuration", rf[k].duration, "wError")
  \/ WriteField(k, "wError", "lastError", rf[k].err, "wRecords")
  \/ WriteField(k, "wRecords", "lastRecords", rf[k].records, "wReady")

\* What the history records about the cycle thread k is completing.
CycleOf(k) ==
  [ err |-> rf[k].err,
    failed |-> Len(rf[k].errors),
    succeeded |-> NumSubs - Len(rf[k].errors),
    rows |-> Len(rf[k].allRecords),
    received |-> rf[k].received,
    errors |-> rf[k].errors,
    ctxAtStart |-> rf[k].ctxAtStart ]

\* The steps of Finish other than the assignment to the store.
FinishWith(k, st) ==
  /\ pc[k] = "wReady"
  /\ store' = st
  /\ mu' = [mu EXCEPT !.w = IF @ = k THEN 0 ELSE @]
  /\ snaps' = Append(snaps, [store |-> store', emitted |-> Emitted(store'),
                             cycle |-> CycleOf(k)])
  /\ pc' = [pc EXCEPT ![k] = IF looping[k] THEN "select" ELSE "spawn"]
  /\ UNCHANGED << refreshStarted, ctxDone, now, looping, tickPending, tickerOn,
                  rf, queryCalls, maxInFlight, count, readerVars, unitVars >>

\* Variant: readiness is latched once a cycle has failed.
FinishLatched(k) ==
  FinishWith(k, IF rf[k].err # Nil
                  THEN [store EXCEPT !.scrapeErrorsTotal = @ + 1,
                                     !.isReady = FALSE]
                  ELSE [store EXCEPT !.isReady = (store.scrapeErrorsTotal = 0)])

\* Variant: a successful cycle makes the collector ready only if it stored
\* at least one record.
FinishNeedsRecords(k) ==
  FinishWith(k, IF rf[k].err # Nil
                  THEN [store EXCEPT !.scrapeErrorsTotal = @ + 1,
                                     !.isReady = FALSE]
                  ELSE [store EXCEPT !.isReady = (Len(store.lastRecords) > 0)])

\* Variant: refresh returns without the deferred Unlock.
FinishNoUnlock(k) ==
  /\ pc[k] = "wReady"
  /\ store' = IF rf[k].err # Nil
                THEN [store EXCEPT !.scrapeErrorsTotal = @ + 1,
                                   !.isReady = FALSE]
                ELSE [store EXCEPT !.isReady = TRUE]
  /\ snaps' = Append(snaps, [store |-> store', emitted |-> Emitted(store'),
                             cycle |-> CycleOf(k)])
  /\ pc' = [pc EXCEPT ![k] = IF looping[k] THEN "select" ELSE "spawn"]
  /\ UNCHANGED << mu, refreshStarted, ctxDone, now, looping, tickPending,
                  tickerOn, rf, queryCalls, maxInFlight, count, readerVars, unitVars >>

\* Variant: the error counter counts every cycle in which an account failed.
FinishCountsAccounts(k) ==
  FinishWith(k, IF rf[k].err # Nil
                  THEN [store EXCEPT !.scrapeErrorsTotal = @ + 1,
                                     !.isReady = FALSE]
                  ELSE [store EXCEPT !.isReady = TRUE,
                                     !.scrapeErrorsTotal =
                                        IF Len(rf[k].errors) > 0 THEN @ + 1 ELSE @])

\* refresh: the error branch or isReady = true, then the deferred Unlock.
Finish(k) ==
  FinishWith(k, IF rf[k].err # Nil
                  THEN [store EXCEPT !.scrapeErrorsTotal = @ + 1,
                                     !.isReady = FALSE]
                  ELSE [store EXCEPT !.isReady = TRUE])

\* ------------------------------------------------------------------ readers
\* Variant: readers do not wait for the writer.
CanRLockUnguarded == TRUE

\* c.mu.RLock() can be taken.
CanRLock == mu.w = 0

\* Collect: c.mu.RLock()
CollectRLock ==
  /\ cpc = "idle"
  /\ CanRLock
  /\ mu' = [mu EXCEPT !.r = @ \cup {"collect"}]
  /\ cpc' = "locked"
  /\ UNCHANGED << store, now, snaps, schedVars, unitVars, collectOut, rpc, readyReq,
                  ipc, indexReq, scrape, healthReq >>

\* Collect: emit every metric, then the deferred RUnlock.
CollectEmit ==
  /\ cpc = "locked"
  /\ collectOut' = << Emitted(store) >>
  /\ mu' = [mu EXCEPT !.r = @ \ {"collect"}]
  /\ cpc' = "idle"
  /\ UNCHANGED << store, now, snaps, schedVars, unitVars, rpc, readyReq, ipc, indexReq,
                  scrape, healthReq >>

\* One accessor call (IsReady, LastError, LastScrapeTime, RecordCount):
\* RLock, read the field, RUnlock.
IsReady == store.isReady
LastError == store.lastError
LastScrapeTime == store.lastScrape
RecordCount == Len(store.lastRecords)

\* handleReady: the IsReady check.
HandleReadyIsReady ==
  /\ rpc = "idle"
  /\ CanRLock
  /\ IF ~IsReady
       THEN /\ readyReq' = [reads |-> << IsReady >>, status |-> 503,
                            body |-> "{\"status\":\"not ready\",\"message\":\"waiting for initial data fetch\"}"]
            /\ rpc' = "idle"
       ELSE /\ readyReq' = [reads |-> << IsReady >>, status |-> 0, body |-> ""]
            /\ rpc' = "lastError"
  /\ UNCHANGED << store, mu, now, snaps, schedVars, unitVars, cpc, collectOut, ipc,
                  indexReq, scrape, healthReq >>

\* Variant: the response is 200 once IsReady has been seen true.
HandleReadyLastErrorIgnored ==
  /\ rpc = "lastError"
  /\ CanRLock
  /\ readyReq' = [reads |-> Append(readyReq.reads, LastError),
                  status |-> 200, body |-> "{\"status\":\"ready\"}"]
  /\ rpc' = "idle"
  /\ UNCHANGED << store, mu, now, snaps, schedVars, unitVars, cpc, collectOut, ipc,
                  indexReq, scrape, healthReq >>

\* handleReady: the LastError check and the response.
HandleReadyLastError ==
  /\ rpc = "lastError"
  /\ CanRLock
  /\ readyReq' = [reads |-> Append(readyReq.reads, LastError),
                  status |-> IF LastError # Nil THEN 503 ELSE 200,
                  body |-> IF LastError # Nil
                             THEN "{\"status\":\"not ready\",\"error\":\"" \o LastError \o "\"}"
                             ELSE "{\"status\":\"ready\"}"]
  /\ rpc' = "idle"
  /\ UNCHANGED << store, mu, now, snaps, schedVars, unitVars, cpc, collectOut, ipc,
                  indexReq, scrape, healthReq >>

\* handleIndex: IsReady, LastScrapeTime and RecordCount, in this order.
HandleIndex ==
  /\ CanRLock
  /\ \/ /\ ipc = "idle"
        /\ indexReq' = [reads |-> << IsReady >>, done |-> FALSE]
        /\ ipc' = "lastScrape"
     \/ /\ ipc = "lastScrape"
        /\ indexReq' = [reads |-> Append(indexReq.reads, LastScrapeTime),
                        done |-> FALSE]
        /\ ipc' = "recordCount"
     \/ /\ ipc = "recordCount"
        /\ indexReq' = [reads |-> Append(indexReq.reads, RecordCount),
                        done |-> TRUE]
        /\ ipc' = "idle"
  /\ UNCHANGED << store, mu, now, snaps, schedVars, unitVars, cpc, collectOut, rpc,
                  readyReq, scrape, healthReq >>

\* The state of the collector as a request finds it (history): the outcome
\* of the last completed cycle, and whether a refresh is running.
Phase ==
  [ cycle |-> IF Len(snaps) = 1 THEN "none"
              ELSE IF snaps[Len(snaps)].cycle.err # Nil THEN "failed"
              ELSE "succeeded",
    refreshing |-> \E k \in Threads : Refreshing(k) ]

\* The mux hands a /health request to handleHealth.
HealthRequest ==
  /\ healthReq.pc = "idle"
  /\ healthReq' = [NoHealth EXCEPT !.pc = "handling"]
  /\ UNCHANGED << store, mu, now, snaps, schedVars, unitVars, cpc, collectOut,
                  rpc, readyReq, ipc, indexReq, scrape >>

\* Variant: liveness follows readiness.
HandleHealthIfReady ==
  /\ healthReq.pc = "handling"
  /\ CanRLock
  /\ healthReq' = IF IsReady
                    THEN [pc |-> "idle", status |-> 200,
                          body |-> "{\"status\":\"healthy\"}", during |-> Phase]
                    ELSE [pc |-> "idle", status |-> 503,
                          body |-> "{\"status\":\"not ready\"}", during |-> Phase]
  /\ UNCHANGED << store, mu, now, snaps, schedVars, unitVars, cpc, collectOut,
                  rpc, readyReq, ipc, indexReq, scrape >>

\* handleHealth: WriteHeader(http.StatusOK) and the body.
HandleHealth ==
  /\ healthReq.pc = "handling"
  /\ healthReq' = [pc |-> "idle", status |-> 200,
                   body |-> "{\"status\":\"healthy\"}", during |-> Phase]
  /\ UNCHANGED << store, mu, now, snaps, schedVars, unitVars, cpc, collectOut,
                  rpc, readyReq, ipc, indexReq, scrape >>

\* ------------------------------------------- Collect, send by send
\* cloudProvider.Name()
providerName == "azure"

\* prometheus.MustNewConstMetric, and the metrics of the two vectors.
Metric(name, labelValues, value) ==
  [name |-> name, labelValues |-> labelValues, value |-> value]

\* The positions of Collect after the loop over the costs map, in program
\* order.
AfterPos ==
  [ up |-> "duration", duration |-> "errors", errors |-> "lastScrape",
    lastScrape |-> "recordCount", recordCount |-> "buildInfo",
    buildInfo |-> "return" ]

\* What Collect sends at position p: one metric or nothing.  The counter
\* vector has a series once refresh has called With(...).Inc() on it.
MetricAt(p, st) ==
  CASE p = "up" -> << Metric("up", << providerName >>, upValue(st)) >>
    [] p = "duration" ->
         << Metric("cloud_cost_exporter_scrape_duration_seconds",
                   << providerName >>, st.lastScrapeDuration) >>
    [] p = "errors" ->
         IF st.scrapeErrorsTotal > 0
           THEN << Metric("cloud_cost_exporter_scrape_errors_total",
                          << providerName >>, st.scrapeErrorsTotal) >>
           ELSE << >>
    [] p = "lastScrape" ->
         IF st.lastScrape # ZeroTime
           THEN << Metric("cloud_cost_exporter_last_scrape_timestamp_seconds",
                          << providerName >>, st.lastScrape) >>
           ELSE << >>
    [] p = "recordCount" ->
         << Metric("cloud_cost_exporter_records_count", << providerName >>,
                   Len(st.lastRecords)) >>
    [] p = "buildInfo" ->
         << Metric("cloud_cost_exporter_build_info",
                   << "version", "git_commit", "build_date", "go_version" >>, 1) >>

\* ch <- m can proceed: the channel has room.
CanSend == Len(scrape.buf) < ChanCap

\* Collect: c.mu.RLock(), and the loop that fills the costs map.
ScrapeRLock ==
  /\ scrape.pc = "idle"
  /\ scrape.buf = << >>
  /\ CanRLock
  /\ mu' = [mu EXCEPT !.r = @ \cup {"scrape"}]
  /\ scrape' = [NoScrape EXCEPT !.pc = "costs",
                                !.costs = Aggregate(store.lastRecords)]
  /\ UNCHANGED << store, now, snaps, schedVars, unitVars, cpc, collectOut,
                  rpc, readyReq, ipc, indexReq, healthReq >>

\* Collect: the next statement.  In the loop over the costs map one entry
\* is sent, in any order; after it each position sends its metric, if it
\* has one.  A send waits until the channel has room.
ScrapeSend ==
  /\ \/ /\ scrape.pc = "costs"
        /\ scrape.costs # {}
        /\ CanSend
        /\ \E data \in scrape.costs :
             scrape' = [scrape EXCEPT
                          !.costs = @ \ {data},
                          !.buf = Append(@, Metric("cloud_cost_daily",
                                                   data.labelValues, data.cost))]
     \/ /\ scrape.pc = "costs"
        /\ scrape.costs = {}
        /\ scrape' = [scrape EXCEPT !.pc = "up"]
     \/ /\ scrape.pc \in DOMAIN AfterPos
        /\ MetricAt(scrape.pc, store) # << >> => CanSend
        /\ scrape' = [scrape EXCEPT !.pc = AfterPos[scrape.pc],
                                    !.buf = @ \o MetricAt(scrape.pc, store)]
  /\ UNCHANGED << store, mu, now, snaps, schedVars, unitVars, cpc, collectOut,
                  rpc, readyReq, ipc, indexReq, healthReq >>

\* Collect returns: the deferred RUnlock.
ScrapeReturn ==
  /\ scrape.pc = "return"
  /\ mu' = [mu EXCEPT !.r = @ \ {"scrape"}]
  /\ scrape' = [scrape EXCEPT !.pc = "idle", !.returned = TRUE]
  /\ UNCHANGED << store, now, snaps, schedVars, unitVars, cpc, collectOut,
                  rpc, readyReq, ipc, indexReq, healthReq >>

\* The consumer of the channel (the registry's Gather) receives one metric.
ConsumerReceive ==
  /\ scrape.buf # << >>
  /\ scrape' = [scrape EXCEPT !.buf = Tail(@),
                              !.gathered = Append(@, Head(scrape.buf))]
  /\ UNCHANGED << store, mu, now, snaps, schedVars, unitVars, cpc, collectOut,
                  rpc, readyReq, ipc, indexReq, healthReq >>

\* ------------------------------------------------------------ specification
\* The scheduler and the refresh cycles it runs.
Next ==
  \/ \E k \in Threads : StartBackgroundRefresh(k)
  \/ \E k \in Threads : Spawn(k)
  \/ \E k \in Threads : LoopPark(k)
  \/ \E k \in Threads : TimerFire(k)
  \/ \E k \in Threads : LoopTick(k)
  \/ \E k \in Threads : LoopStop(k)
  \/ Cancel
  \/ \E k \in Threads : QuerySubscription(k)
  \/ \E k \in Threads : QueryCostsReturn(k)
  \/ \E k \in Threads : Lock(k)
  \/ \E k \in Threads : WriteFields(k)
  \/ \E k \in Threads : Finish(k)

Spec == Init /\ [][Next]_vars

\* The scheduler with the ticks that the ticker drops.
NextTicks ==
  \/ Next
  \/ \E k \in Threads : TimerDrop(k)

SpecTicks == Init /\ [][NextTicks]_vars

\* ------------------------------------------- QueryCosts, attempt by attempt
Minute == 60 * Second

\* cost_client.go: the retry constants, and cfg.APITimeout seconds.
MaxRetryElapsedTime == 2 * Minute
InitialRetryInterval == 1 * Second
MaxRetryInterval == 30 * Second
APITimeout == cfg.APITimeout * Second

\* How long one attempt can take: less than a tick, or the whole timeout.
AttemptDurations == {0, APITimeout}

\* Outcome of one call of queryCostsForSubscriptionInternal.
AttemptOutcomes(sub, done) ==
  IF done
    THEN {Failed(ContextCanceled)}
    ELSE {Failed(ApiError)} \cup {[ok |-> TRUE, rows |-> r, cause |-> Nil] : r \in Responses(sub)}

\* ExponentialBackOff.incrementCurrentInterval, Multiplier 1.5.
IncrementCurrentInterval(cur) ==
  IF 3 * cur >= 2 * MaxRetryInterval THEN MaxRetryInterval ELSE (3 * cur) \div 2

\* getRandomValueFromInterval, RandomizationFactor 0.5: the wait is drawn
\* from [cur - cur/2, cur + cur/2]; the ends and the middle stand for it.
RandomizedIntervals(cur) == {cur - cur \div 2, cur, cur + cur \div 2}

\* Variant: the retry has no budget.
BudgetNeverExceeded(elapsed, next) == FALSE

\* ExponentialBackOff.NextBackOff: elapsed+next > MaxElapsedTime, return Stop.
BudgetExceeded(elapsed, next) == elapsed + next > MaxRetryElapsedTime

\* Variant: the closure keeps the error of an earlier attempt.
OperationSticky(b, out, d) ==
  [b EXCEPT !.attempts = @ + 1, !.elapsed = @ + d, !.out = out,
            !.last = IF b.last # Nil THEN b.last ELSE out.cause,
            !.result = IF out.ok THEN out.rows ELSE @]

\* queryCostsForSubscription, the operation closure: one attempt that takes
\* d ticks and returns out; a success assigns result.
Operation(b, out, d) ==
  [b EXCEPT !.attempts = @ + 1, !.elapsed = @ + d, !.out = out,
            !.last = out.cause,
            !.result = IF out.ok THEN out.rows ELSE @]

\* Client.QueryCosts: the loop reaches the next subscription and calls
\* queryCostsForSubscription, which sets up the backoff and calls backoff.Retry.
QueryBegin ==
  /\ bo.pc \in {"idle", "done"}
  /\ qc.pc \in {"idle", "loop"}
  /\ qc.idx < NumSubs
  /\ qc' = [qc EXCEPT !.pc = "loop", !.idx = @ + 1]
  /\ bo' = [NoRetry EXCEPT !.pc = "op", !.currentInterval = InitialRetryInterval]
  /\ UNCHANGED << store, mu, now, snaps, schedVars, readerVars, fn >>

\* backoff.Retry: operation(), and return nil when it succeeded.
RetryOperation ==
  /\ bo.pc = "op"
  /\ \E out \in AttemptOutcomes(cfg.Subscriptions[qc.idx], ctxDone) :
       \E d \in AttemptDurations :
         LET b == Operation(bo, out, d) IN
           bo' = IF b.last = Nil
                   THEN [b EXCEPT !.pc = "return", !.exit = "success"]
                   ELSE [b EXCEPT !.pc = "backoff"]
  /\ UNCHANGED << store, mu, now, snaps, schedVars, readerVars, qc, fn >>

\* backoff.Retry: b.NextBackOff().  With the context done, or with the
\* budget exceeded, it is Stop and Retry returns ctx.Err() or the error of
\* the attempt; otherwise the timer is started.
RetryNextBackOff ==
  /\ bo.pc = "backoff"
  /\ IF ctxDone
       THEN bo' = [bo EXCEPT !.pc = "return", !.exit = "stop",
                             !.last = ContextCanceled]
       ELSE \E next \in RandomizedIntervals(bo.currentInterval) :
              bo' = IF BudgetExceeded(bo.elapsed, next)
                      THEN [bo EXCEPT !.pc = "return", !.exit = "stop",
                              !.currentInterval = IncrementCurrentInterval(@)]
                      ELSE [bo EXCEPT !.pc = "wait", !.next = next,
                              !.currentInterval = IncrementCurrentInterval(@)]
  /\ UNCHANGED << store, mu, now, snaps, schedVars, readerVars, qc, fn >>

\* backoff.Retry, select: case <-t.C(), the timer fires after the wait.
RetryTimerFire ==
  /\ bo.pc = "wait"
  /\ bo' = [bo EXCEPT !.pc = "op", !.elapsed = @ + bo.next, !.next = 0]
  /\ UNCHANGED << store, mu, now, snaps, schedVars, readerVars, qc, fn >>

\* backoff.Retry, select: case <-ctx.Done(), return ctx.Err().
RetryCancelled ==
  /\ bo.pc = "woken"
  /\ bo' = [bo EXCEPT !.pc = "return", !.exit = "select",
                      !.last = ContextCanceled]
  /\ UNCHANGED << store, mu, now, snaps, schedVars, readerVars, qc, fn >>

\* queryCostsForSubscription returns, and QueryCosts appends the records or
\* the error.
QueryAppend ==
  /\ bo.pc = "return"
  /\ bo' = [bo EXCEPT !.pc = "done"]
  /\ qc' = IF bo.last # Nil
             THEN [qc EXCEPT !.errors =
                     Append(@, WrapRetryError(cfg.Subscriptions[qc.idx], bo.last))]
             ELSE [qc EXCEPT !.allRecords = @ \o bo.result]
  /\ UNCHANGED << store, mu, now, snaps, schedVars, readerVars, fn >>

\* Client.QueryCosts, after the loop: the result.
QueryReturn ==
  /\ qc.pc = "loop"
  /\ qc.idx = NumSubs
  /\ bo.pc = "done"
  /\ qc' = [qc EXCEPT !.pc = "returned",
                      !.ret = QueryCostsResult(qc.allRecords, qc.errors)]
  /\ UNCHANGED << store, mu, now, snaps, schedVars, readerVars, bo, fn >>

\* One QueryCosts call with its retries, and the cancellation.
NextRetry ==
  \/ QueryBegin
  \/ RetryOperation
  \/ RetryNextBackOff
  \/ RetryTimerFire
  \/ RetryCancelled
  \/ QueryAppend
  \/ QueryReturn
  \/ Cancel

SpecRetry == Init /\ [][NextRetry]_vars

\* ------------------------------------ the pipeline, attempt by attempt
\* Outcome of one attempt where the rows do not matter: failure, or the
\* rows the account has.
UnitOutcomes(sub, done) ==
  IF done
    THEN {Failed(ContextCanceled)}
    ELSE {Failed(ApiError),
          [ok |-> TRUE, rows |-> CHOOSE r \in Responses(sub) : r # << >>,
           cause |-> Nil]}

\* The account thread k is querying.
SubOf(k) == cfg.Subscriptions[rf[k].idx]

\* backoff.Retry in the refresh of thread k: operation().
UnitOperation(k) ==
  /\ pc[k] = "query"
  /\ rf[k].idx <= NumSubs
  /\ rf[k].unit.pc \in {"idle", "op"}
  /\ \E out \in UnitOutcomes(SubOf(k), ctxDone) :
       LET b == Operation(rf[k].unit, out, 0) IN
         rf' = [rf EXCEPT ![k].unit =
                  IF b.last = Nil
                    THEN [b EXCEPT !.pc = "return", !.exit = "success"]
                    ELSE [b EXCEPT !.pc = "backoff"]]
  /\ UNCHANGED << store, mu, refreshStarted, ctxDone, now, pc, looping,
                  tickPending, tickerOn, queryCalls, maxInFlight, count, snaps,
                  readerVars, unitVars >>

\* backoff.Retry: b.NextBackOff(), elapsed time left out: Stop with the
\* context done, and otherwise Stop (the budget is exceeded) or a wait.
UnitNextBackOff(k) ==
  /\ pc[k] = "query"
  /\ rf[k].unit.pc = "backoff"
  /\ IF ctxDone
       THEN rf' = [rf EXCEPT ![k].unit = [@ EXCEPT !.pc = "return", !.exit = "stop",
                                                  !.last = ContextCanceled]]
       ELSE \/ rf' = [rf EXCEPT ![k].unit = [@ EXCEPT !.pc = "return",
                                                      !.exit = "stop"]]
            \/ /\ rf[k].unit.attempts < MaxAttempts
               /\ rf' = [rf EXCEPT ![k].unit = [@ EXCEPT !.pc = "wait"]]
  /\ UNCHANGED << store, mu, refreshStarted, ctxDone, now, pc, looping,
                  tickPending, tickerOn, queryCalls, maxInFlight, count, snaps,
                  readerVars, unitVars >>

\* backoff.Retry, select: case <-t.C().
UnitTimerFire(k) ==
  /\ pc[k] = "query"
  /\ rf[k].unit.pc = "wait"
  /\ rf' = [rf EXCEPT ![k].unit = [@ EXCEPT !.pc = "op"]]
  /\ UNCHANGED << store, mu, refreshStarted, ctxDone, now, pc, looping,
                  tickPending, tickerOn, queryCalls, maxInFlight, count, snaps,
                  readerVars, unitVars >>

\* backoff.Retry, select: case <-ctx.Done(), return ctx.Err().
UnitCancelled(k) ==
  /\ pc[k] = "query"
  /\ rf[k].unit.pc = "woken"
  /\ rf' = [rf EXCEPT ![k].unit = [@ EXCEPT !.pc = "return", !.exit = "select",
                                            !.last = ContextCanceled]]
  /\ UNCHANGED << store, mu, refreshStarted, ctxDone, now, pc, looping,
                  tickPending, tickerOn, queryCalls, maxInFlight, count, snaps,
                  readerVars, unitVars >>

\* queryCostsForSubscription returns; QueryCosts appends the records or the
\* error and goes on to the next subscription.
UnitReturn(k) ==
  /\ pc[k] = "query"
  /\ rf[k].unit.pc = "return"
  /\ rf' = [rf EXCEPT ![k] =
              IF rf[k].unit.last = Nil
                THEN [@ EXCEPT !.idx = @ + 1, !.unit = NoRetry,
                               !.allRecords = @ \o rf[k].unit.result]
                ELSE [@ EXCEPT !.idx = @ + 1, !.unit = NoRetry,
                               !.errors = Append(@, WrapRetryError(SubOf(k),
                                                       rf[k].unit.last))]]
  /\ now' = now + 1
  /\ UNCHANGED << store, mu, refreshStarted, ctxDone, pc, looping, tickPending,
                  tickerOn, queryCalls, maxInFlight, count, snaps, readerVars,
                  unitVars >>

\* The steps the program takes by itself in thread k, as opposed to the calls
\* of StartBackgroundRefresh, the ticks and the cancellation.
ProgramStep(k) ==
  \/ Spawn(k) \/ LoopPark(k) \/ LoopTick(k) \/ LoopStop(k)
  \/ UnitOperation(k) \/ UnitNextBackOff(k) \/ UnitTimerFire(k)
  \/ UnitCancelled(k) \/ UnitReturn(k)
  \/ QueryCostsReturn(k) \/ Lock(k) \/ WriteFields(k) \/ Finish(k)

NextShutdown ==
  \/ \E k \in Threads : StartBackgroundRefresh(k)
  \/ \E k \in Threads : TimerFire(k)
  \/ Cancel
  \/ \E k \in Threads : ProgramStep(k)

\* A goroutine that can take a step is scheduled in the end, and a select
\* that finds ctx.Done() ready again and again takes that case in the end.
SpecShutdown ==
  /\ Init
  /\ [][NextShutdown]_vars
  /\ \A k \in Threads : WF_vars(ProgramStep(k)) /\ SF_vars(LoopStop(k))

\* ------------------------------------------------ Collect on stored records
\* Rows of the first subscription as the provider can return them: service
\* and resource group names are strings of the API response.
StoredRecords ==
  { CostRecord(cfg.Subscriptions[1], service, group, cost) :
      service \in {"vm", "vm|eu"}, group \in {"prod", "eu|prod"},
      cost \in {100, 250} }

\* The sequences of at most n elements of S.
SeqsUpTo(S, n) == UNION {[1..m -> S] : m \in 0..n}

\* The collector after an initial refresh that stored records, with the
\* loop waiting for its first tick.
InitStored ==
  /\ \E records \in SeqsUpTo(StoredRecords, MaxRecordsToCache) :
       /\ store = [ lastRecords |-> records, lastError |-> Nil, lastScrape |-> 2,
                    lastScrapeDuration |-> 1, isReady |-> TRUE,
                    scrapeErrorsTotal |-> 0 ]
       /\ rf = [k \in Threads |->
                 IF k = 1
                   THEN [NoRefresh EXCEPT !.start = 1, !.idx = NumSubs + 1,
                                          !.allRecords = records,
                                          !.received = Len(records),
                                          !.records = records, !.duration = 1]
                   ELSE NoRefresh]
  /\ snaps = << [store |-> NewStore, emitted |-> Emitted(NewStore),
                 cycle |-> NoCycle],
                [store |-> store, emitted |-> Emitted(store),
                 cycle |-> [NoCycle EXCEPT !.succeeded = NumSubs,
                                           !.rows = Len(store.lastRecords),
                                           !.received = Len(store.lastRecords)]] >>
  /\ mu = [w |-> 0, r |-> {}]
  /\ refreshStarted = TRUE
  /\ ctxDone = FALSE
  /\ now = 2
  /\ pc = [k \in Threads |-> IF k = 1 THEN "parked" ELSE "idle"]
  /\ looping = [k \in Threads |-> k = 1]
  /\ tickPending = [k \in Threads |-> FALSE]
  /\ tickerOn = [k \in Threads |-> k = 1]
  /\ queryCalls = 1
  /\ maxInFlight = 1
  /\ count = [k \in Threads |-> [ticks |-> 0, cycles |-> IF k = 1 THEN 1 ELSE 0]]
  /\ cpc = "idle"
  /\ collectOut = << >>
  /\ rpc = "idle"
  /\ readyReq = [reads |-> << >>, status |-> 0, body |-> ""]
  /\ ipc = "idle"
  /\ indexReq = [reads |-> << >>, done |-> FALSE]
  /\ scrape = NoScrape
  /\ healthReq = NoHealth
  /\ qc = NoQuery
  /\ bo = NoRetry
  /\ fn = NoCall

\* Prometheus scrapes of a collector that holds records.
NextStored ==
  \/ CollectRLock
  \/ CollectEmit
  \/ ScrapeRLock
  \/ ScrapeSend
  \/ ScrapeReturn
  \/ ConsumerReceive

SpecStored == InitStored /\ [][NextStored]_vars

\* ----------------------------------------------------- the label projection
\* Label names a configuration can give its groups; the last is not a
\* dimension of CostRecord.
LabelNames == {"service", "resource_group", "meter_category", "team"}

\* The configurations, as far as buildMetricLabels reads them.
Configs ==
  { [GroupByEnabled |-> e, Groups |-> g] :
      e \in BOOLEAN,
      g \in SeqsUpTo({[LabelName |-> n] : n \in LabelNames}, MaxGroups) }

\* Records whose fields all differ, and one with empty dimensions.
ProbeRecords ==
  { [ Date |-> "2024-01-02", Provider |-> "azure", AccountID |-> "id-a",
      AccountName |-> "sub-a", Service |-> "Storage", Cost |-> 1234,
      Currency |-> "$", ResourceType |-> "type", ResourceGroup |-> "rg1",
      ResourceLocation |-> "westeurope", ResourceID |-> "rid",
      ResourceName |-> "rname", MeterCategory |-> "mcat",
      MeterSubCategory |-> "msub", ChargeType |-> "Usage",
      PricingModel |-> "OnDemand" ],
    CostRecord(cfg.Subscriptions[2], "Compute", "", 1000) }

InitLabels ==
  /\ InitCollector
  /\ \E c \in Configs, record \in ProbeRecords :
       fn = [name |-> "", arg |-> << c, record >>, res |-> << >>]

\* NewCostCollector: metricLabels := buildMetricLabels(cfg)
CallBuildMetricLabels ==
  /\ fn.name = ""
  /\ fn' = [fn EXCEPT !.name = "buildMetricLabels",
                      !.res = buildMetricLabels(fn.arg[1])]
  /\ UNCHANGED << store, mu, now, snaps, schedVars, readerVars, qc, bo >>

\* Collect: labelValues := extractLabelValues(record, c.costMetricLabelNames)
CallExtractLabelValues ==
  /\ fn.name = "buildMetricLabels"
  /\ fn' = [name |-> "extractLabelValues", arg |-> << fn.arg[2], fn.res >>,
            res |-> extractLabelValues(fn.arg[2], fn.res)]
  /\ UNCHANGED << store, mu, now, snaps, schedVars, readerVars, qc, bo >>

NextLabels ==
  \/ CallBuildMetricLabels
  \/ CallExtractLabelValues

SpecLabels == InitLabels /\ [][NextLabels]_vars

\* ------------------------------------------------------- the config loader
\* config.go: the validation constants and the defaults.
MinRefreshInterval == 60
MinPort == 1
MaxPort == 65535
MinDaysToQuery == 1
DefaultCurrency == "EUR-sign"
DefaultEndDateOffset == 1
DefaultDaysToQuery == 7
DefaultRefreshInterval == 3600
DefaultHTTPPort == 8080
DefaultLogLevel == "info"
DefaultAPITimeout == 30

\* The value of an environment variable is a sequence of characters; the
\* string it stands for, and the characters of a decimal numeral.
RECURSIVE String(_)
String(chars) == IF chars = << >> THEN "" ELSE Head(chars) \o String(Tail(chars))

DigitChars == << "0", "1", "2", "3", "4", "5", "6", "7", "8", "9" >>
IsDigit(ch) == \E d \in 1..10 : DigitChars[d] = ch

RECURSIVE DigitsValue(_, _)
DigitsValue(chars, acc) ==
  IF chars = << >> THEN acc
  ELSE DigitsValue(Tail(chars), 10 * acc + (CHOOSE d \in 1..10 : DigitChars[d] = Head(chars)) - 1)

\* strconv.Atoi: an optional sign and at least one digit, nothing else.
Atoi(chars) ==
  LET signed == chars # << >> /\ Head(chars) \in {"+", "-"}
      digits == IF signed THEN Tail(chars) ELSE chars
  IN IF digits = << >> \/ \E i \in 1..Len(digits) : ~IsDigit(digits[i])
       THEN [ok |-> FALSE, val |-> 0]
       ELSE [ok |-> TRUE,
             val |-> IF signed /\ Head(chars) = "-"
                       THEN 0 - DigitsValue(digits, 0)
                       ELSE DigitsValue(digits, 0)]

\* Index of the first sep in chars, or 0.
IndexOf(chars, sep) ==
  IF \E i \in 1..Len(chars) : chars[i] = sep
    THEN CHOOSE i \in 1..Len(chars) :
           chars[i] = sep /\ \A j \in 1..(i - 1) : chars[j] # sep
    ELSE 0

\* strings.Split(val, sep)
RECURSIVE Split(_, _)
Split(chars, sep) ==
  LET i == IndexOf(chars, sep)
  IN IF i = 0 THEN << chars >>
     ELSE << SubSeq(chars, 1, i - 1) >> \o Split(SubSeq(chars, i + 1, Len(chars)), sep)

\* strings.SplitN(pair, sep, 2)
SplitN2(chars, sep) ==
  LET i == IndexOf(chars, sep)
  IN IF i = 0 THEN << chars >>
     ELSE << SubSeq(chars, 1, i - 1), SubSeq(chars, i + 1, Len(chars)) >>

\* strings.TrimSpace
RECURSIVE TrimSpace(_)
TrimSpace(chars) ==
  IF chars = << >> THEN chars
  ELSE IF Head(chars) = " " THEN TrimSpace(Tail(chars))
  ELSE IF chars[Len(chars)] = " " THEN TrimSpace(SubSeq(chars, 1, Len(chars) - 1))
  ELSE chars

\* yaml.Unmarshal into a zero Config: a key the file does not have leaves the
\* zero value of its field.  A file gives each key no value or one: << >>
\* or << v >>.
Get(file, key, zero) == IF file[key] = << >> THEN zero ELSE file[key][1]

Unmarshal(file) ==
  [ Subscriptions |-> Get(file, "subscriptions", << >>),
    Currency |-> Get(file, "currency", ""),
    DateRange |-> [EndDateOffset |-> Get(file, "end_date_offset", 0),
                   DaysToQuery |-> Get(file, "days_to_query", 0)],
    GroupByEnabled |-> Get(file, "group_by", [Enabled |-> FALSE, Groups |-> << >>]).Enabled,
    Groups |-> Get(file, "group_by", [Enabled |-> FALSE, Groups |-> << >>]).Groups,
    RefreshInterval |-> Get(file, "refresh_interval", 0),
    HTTPPort |-> Get(file, "http_port", 0),
    LogLevel |-> Get(file, "log_level", ""),
    APITimeout |-> Get(file, "api_timeout", 0),
    EnableHighCardinalityMetrics |->
      Get(file, "enable_high_cardinality_metrics", Nil) ]

applyDefaults(c) ==
  [ c EXCEPT
      !.Currency = IF @ = "" THEN DefaultCurrency ELSE @,
      !.DateRange.EndDateOffset = IF @ = 0 THEN DefaultEndDateOffset ELSE @,
      !.DateRange.DaysToQuery = IF @ = 0 THEN DefaultDaysToQuery ELSE @,
      !.RefreshInterval = IF @ = 0 THEN DefaultRefreshInterval ELSE @,
      !.HTTPPort = IF @ = 0 THEN DefaultHTTPPort ELSE @,
      !.LogLevel = IF @ = "" THEN DefaultLogLevel ELSE @,
      !.APITimeout = IF @ = 0 THEN DefaultAPITimeout ELSE @,
      !.EnableHighCardinalityMetrics = IF @ = Nil THEN TRUE ELSE @ ]

\* applyEnvOverrides: the subscriptions of AZURE_COST_SUBSCRIPTIONS.
RECURSIVE EnvSubscriptions(_)
EnvSubscriptions(pairs) ==
  IF pairs = << >> THEN << >>
  ELSE LET parts == SplitN2(Head(pairs), ":")
           sub == IF Len(parts) = 2
                    THEN [ID |-> String(TrimSpace(parts[1])),
                          Name |-> String(TrimSpace(parts[2]))]
                    ELSE [ID |-> String(TrimSpace(parts[1])),
                          Name |-> String(TrimSpace(parts[1]))]
       IN << sub >> \o EnvSubscriptions(Tail(pairs))

\* The integer variables in the order applyEnvOverrides reads them.
IntVars ==
  << "AZURE_COST_REFRESH_INTERVAL", "AZURE_COST_HTTP_PORT",
     "AZURE_COST_END_DATE_OFFSET", "AZURE_COST_DAYS_TO_QUERY" >>

\* applyEnvOverrides: the error it returns, that of the first integer
\* variable that is set and is not an integer.
EnvError(env) ==
  IF \E i \in 1..Len(IntVars) : env[IntVars[i]] # << >> /\ ~Atoi(env[IntVars[i]]).ok
    THEN "invalid " \o IntVars[CHOOSE i \in 1..Len(IntVars) :
                                 /\ env[IntVars[i]] # << >>
                                 /\ ~Atoi(env[IntVars[i]]).ok
                                 /\ \A j \in 1..(i - 1) :
                                      env[IntVars[j]] = << >> \/ Atoi(env[IntVars[j]]).ok]
    ELSE Nil

\* One integer setting after its variable has been read.
IntOverride(env, var, old) == IF env[var] # << >> THEN Atoi(env[var]).val ELSE old

\* applyEnvOverrides: the configuration when it returns nil.
applyEnvOverrides(c, env) ==
  [ c EXCEPT
      !.Currency = IF env["AZURE_COST_CURRENCY"] # << >>
                     THEN String(env["AZURE_COST_CURRENCY"]) ELSE @,
      !.RefreshInterval = IntOverride(env, "AZURE_COST_REFRESH_INTERVAL", @),
      !.HTTPPort = IntOverride(env, "AZURE_COST_HTTP_PORT", @),
      !.LogLevel = IF env["AZURE_COST_LOG_LEVEL"] # << >>
                     THEN String(env["AZURE_COST_LOG_LEVEL"]) ELSE @,
      !.DateRange.EndDateOffset = IntOverride(env, "AZURE_COST_END_DATE_OFFSET", @),
      !.DateRange.DaysToQuery = IntOverride(env, "AZURE_COST_DAYS_TO_QUERY", @),
      !.Subscriptions =
         IF env["AZURE_COST_SUBSCRIPTIONS"] # << >>
              /\ EnvSubscriptions(Split(env["AZURE_COST_SUBSCRIPTIONS"], ",")) # << >>
           THEN EnvSubscriptions(Split(env["AZURE_COST_SUBSCRIPTIONS"], ","))
           ELSE @,
      !.EnableHighCardinalityMetrics =
         IF env["AZURE_COST_ENABLE_HIGH_CARDINALITY_METRICS"] # << >>
           THEN String(env["AZURE_COST_ENABLE_HIGH_CARDINALITY_METRICS"]) \in {"true", "1"}
           ELSE @ ]

\* Variant: the refresh interval only has to be positive.
validateNoFloor(c) ==
  IF Len(c.Subscriptions) = 0 THEN "no subscriptions configured"
  ELSE IF \E i \in 1..Len(c.Subscriptions) : c.Subscriptions[i].ID = ""
            \/ c.Subscriptions[i].Name = ""
    THEN "subscription has empty ID or name"
  ELSE IF c.RefreshInterval <= 0 THEN "refresh_interval must be positive"
  ELSE IF c.DateRange.DaysToQuery < MinDaysToQuery
    THEN "days_to_query must be at least 1"
  ELSE IF c.DateRange.EndDateOffset < 0 THEN "end_date_offset cannot be negative"
  ELSE IF c.DateRange.EndDateOffset >= c.DateRange.DaysToQuery
    THEN "end_date_offset must be less than days_to_query"
  ELSE IF c.HTTPPort < MinPort \/ c.HTTPPort > MaxPort
    THEN "http_port must be between 1 and 65535"
  ELSE IF c.APITimeout <= 0 THEN "api_timeout must be positive"
  ELSE IF c.APITimeout > 300 THEN "api_timeout should not exceed 300 seconds"
  ELSE Nil

\* validate: the error it returns, or nil.
validate(c) ==
  IF Len(c.Subscriptions) = 0 THEN "no subscriptions configured"
  ELSE IF \E i \in 1..Len(c.Subscriptions) : c.Subscriptions[i].ID = ""
            \/ c.Subscriptions[i].Name = ""
    THEN "subscription has empty ID or name"
  ELSE IF c.RefreshInterval <= 0 THEN "refresh_interval must be positive"
  ELSE IF c.RefreshInterval < MinRefreshInterval
    THEN "refresh_interval must be at least 60 seconds"
  ELSE IF c.DateRange.DaysToQuery < MinDaysToQuery
    THEN "days_to_query must be at least 1"
  ELSE IF c.DateRange.EndDateOffset < 0 THEN "end_date_offset cannot be negative"
  ELSE IF c.DateRange.EndDateOffset >= c.DateRange.DaysToQuery
    THEN "end_date_offset must be less than days_to_query"
  ELSE IF c.HTTPPort < MinPort \/ c.HTTPPort > MaxPort
    THEN "http_port must be between 1 and 65535"
  ELSE IF c.APITimeout <= 0 THEN "api_timeout must be positive"
  ELSE IF c.APITimeout > 300 THEN "api_timeout should not exceed 300 seconds"
  ELSE Nil

\* The YAML files: every key is absent or has one of a few values around
\* the limits validate checks.
Files ==
  [ subscriptions : { << >>, << << [ID |-> "id-a", Name |-> "sub-a"] >> >>,
                      << << [ID |-> "", Name |-> "sub-a"] >> >>,
                      << << [ID |-> "id-a", Name |-> ""] >> >> },
    currency : {<< >>, << "$" >>},
    end_date_offset : {<< >>, << 0 >>, << -1 >>},
    days_to_query : {<< >>, << 1 >>, << -1 >>},
    group_by : { << >>,
                 << [Enabled |-> TRUE,
                     Groups |-> << [LabelName |-> "resource_group"] >>] >>,
                 << [Enabled |-> TRUE,
                     Groups |-> << [LabelName |-> "service"] >>] >> },
    refresh_interval : {<< >>, << 0 >>, << 59 >>, << 60 >>},
    http_port : {<< >>, << 65536 >>},
    log_level : {<< >>},
    api_timeout : {<< >>, << 300 >>, << 301 >>, << -1 >>},
    enable_high_cardinality_metrics : {<< >>} ]

\* The environments: a variable that is not set reads as the empty string.
Envs ==
  [ AZURE_COST_CURRENCY : {<< >>},
    AZURE_COST_REFRESH_INTERVAL : {<< >>, << "9", "0" >>, << "1", "h" >>},
    AZURE_COST_HTTP_PORT : {<< >>},
    AZURE_COST_LOG_LEVEL : {<< >>},
    AZURE_COST_END_DATE_OFFSET : {<< >>, << "0" >>},
    AZURE_COST_DAYS_TO_QUERY : {<< >>},
    AZURE_COST_SUBSCRIPTIONS : {<< >>, << "c", ":", " ", "d" >>, << "c", "," >>},
    AZURE_COST_ENABLE_HIGH_CARDINALITY_METRICS : {<< >>} ]

\* Load has been called with a file that was read, in an environment.
InitConfig ==
  /\ InitCollector
  /\ \E file \in Files, env \in Envs :
       fn = [name |-> "", arg |-> << file, env >>, res |-> << >>]

\* One statement of Load; res is the configuration and the error so far.
LoadStep(from, to, c, err) ==
  /\ fn.name = from
  /\ fn' = [fn EXCEPT !.name = to, !.res = [cfg |-> c, err |-> err]]
  /\ UNCHANGED << store, mu, now, snaps, schedVars, readerVars, qc, bo >>

\* Load: yaml.Unmarshal(data, &cfg)
CallUnmarshal == LoadStep("", "Unmarshal", Unmarshal(fn.arg[1]), Nil)

\* Load: applyDefaults(&cfg)
CallApplyDefaults ==
  LoadStep("Unmarshal", "applyDefaults", applyDefaults(fn.res.cfg), Nil)

\* Load: applyEnvOverrides(&cfg)
CallApplyEnvOverrides ==
  LoadStep("applyDefaults", "applyEnvOverrides",
           applyEnvOverrides(fn.res.cfg, fn.arg[2]), EnvError(fn.arg[2]))

\* Load: validate(&cfg)
CallValidate ==
  /\ fn.name = "applyEnvOverrides"
  /\ fn.res.err = Nil
  /\ LoadStep("applyEnvOverrides", "validate", fn.res.cfg, validate(fn.res.cfg))

\* Load returns the configuration, or nil and the error: << c >> or << >>.
LoadReturn ==
  /\ \/ fn.name = "applyEnvOverrides" /\ fn.res.err # Nil
     \/ fn.name = "validate"
  /\ LoadStep(fn.name, "Load",
              IF fn.res.err # Nil THEN << >> ELSE << fn.res.cfg >>, fn.res.err)

\* main: NewCostCollector with the configuration Load returned, which
\* builds the label names of the cost metric.
CallNewCostCollector ==
  /\ fn.name = "Load"
  /\ fn.res.cfg # << >>
  /\ fn' = [fn EXCEPT !.name = "NewCostCollector",
                      !.res = buildMetricLabels(fn.res.cfg[1])]
  /\ UNCHANGED << store, mu, now, snaps, schedVars, readerVars, qc, bo >>

NextConfig ==
  \/ CallUnmarshal
  \/ CallApplyDefaults
  \/ CallApplyEnvOverrides
  \/ CallValidate
  \/ LoadReturn
  \/ CallNewCostCollector

SpecConfig == InitConfig /\ [][NextConfig]_vars

\* ------------------------------------------------------- parseResponse
\* Number of rows of a response.
MaxRows == 2

\* A cell of a row (interface{}): its dynamic type with the number or the
\* characters it holds.  Numbers of type float64 are whole here.
Cell(t, v) ==
  [t |-> t,
   n |-> IF t \in {"float64", "int"} THEN v ELSE 0,
   s |-> IF t = "string" THEN v ELSE << >>]

\* A column of the response: Name is a *string.
Column(name) == [hasName |-> TRUE, name |-> name]

\* buildColumnMap: whether the map has the name, and the index it maps the
\* name to (the last column of that name, counted from 0).
HasColumn(columns, name) ==
  \E i \in 1..Len(columns) : columns[i].hasName /\ columns[i].name = name
ColumnIndex(columns, name) ==
  (CHOOSE i \in 1..Len(columns) :
     /\ columns[i].hasName /\ columns[i].name = name
     /\ \A j \in (i + 1)..Len(columns) :
          ~(columns[j].hasName /\ columns[j].name = name)) - 1

\* fmt.Sprintf("%d", n)
RECURSIVE Itoa(_)
Itoa(n) ==
  IF n < 0 THEN << "-" >> \o Itoa(0 - n)
  ELSE IF n < 10 THEN << DigitChars[n + 1] >>
  ELSE Itoa(n \div 10) \o << DigitChars[(n % 10) + 1] >>

\* fmt.Sprintf("%v", value); for a float64, of a whole number below 10^6.
SprintV(value) ==
  CASE value.t = "string" -> value.s
    [] value.t = "nil" -> << "<", "n", "i", "l", ">" >>
    [] OTHER -> Itoa(value.n)

getStringFromRow(row, columns, columnName) ==
  IF HasColumn(columns, columnName) /\ Len(row) > ColumnIndex(columns, columnName)
    THEN LET value == String(SprintV(row[ColumnIndex(columns, columnName) + 1]))
         IN IF value # "" /\ value # "<nil>" THEN value ELSE ""
    ELSE ""

\* Variant: a cost given as a string counts as 1.
parseCostLenient(value) ==
  IF value.t \in {"float64", "int", "int64"} THEN value.n
  ELSE IF value.t = "string" THEN 1 ELSE 0

parseCost(value) ==
  IF value.t \in {"float64", "int", "int64"} THEN value.n ELSE 0

\* formatDateValue: %d, %.0f, the string itself, %v.
formatDateValue(value) ==
  CASE value.t \in {"int", "int64"} -> Itoa(value.n)
    [] value.t = "float64" -> Itoa(value.n)
    [] value.t = "string" -> value.s
    [] OTHER -> SprintV(value)

extractDigits(chars) == SelectSeq(chars, IsDigit)

formatYYYYMMDD(dateDigits) ==
  IF Len(dateDigits) >= 8
    THEN String(SubSeq(dateDigits, 1, 4)) \o "-" \o String(SubSeq(dateDigits, 5, 6))
           \o "-" \o String(SubSeq(dateDigits, 7, 8))
    ELSE String(dateDigits)

parseDate(value) == formatYYYYMMDD(extractDigits(formatDateValue(value)))

\* extractResourceInfo: the resource ID and its last segment.
extractResourceInfo(row, columns) ==
  IF HasColumn(columns, "ResourceId") /\ Len(row) > ColumnIndex(columns, "ResourceId")
    THEN LET chars == SprintV(row[ColumnIndex(columns, "ResourceId") + 1])
             resourceId == String(chars)
             parts == Split(chars, "/")
         IN [ ResourceID |-> resourceId,
              ResourceName |-> IF resourceId # "" /\ resourceId # "<nil>"
                                 THEN String(parts[Len(parts)]) ELSE "" ]
    ELSE [ResourceID |-> "", ResourceName |-> ""]

extractService(row, columns) ==
  IF getStringFromRow(row, columns, "ServiceName") # ""
    THEN getStringFromRow(row, columns, "ServiceName")
  ELSE IF getStringFromRow(row, columns, "MeterCategory") # ""
    THEN getStringFromRow(row, columns, "MeterCategory")
  ELSE "Unknown"

extractResourceGroup(row, columns) ==
  IF getStringFromRow(row, columns, "ResourceGroup") # ""
    THEN getStringFromRow(row, columns, "ResourceGroup")
    ELSE getStringFromRow(row, columns, "ResourceGroupName")

parseRow(row, columns, costIdx, dateIdx, sub) ==
  [ Date |-> parseDate(row[dateIdx + 1]),
    Provider |-> "azure",
    AccountID |-> sub.ID,
    AccountName |-> sub.Name,
    Service |-> extractService(row, columns),
    ResourceType |-> getStringFromRow(row, columns, "ResourceType"),
    ResourceGroup |-> extractResourceGroup(row, columns),
    ResourceLocation |-> getStringFromRow(row, columns, "ResourceLocation"),
    ResourceID |-> extractResourceInfo(row, columns).ResourceID,
    ResourceName |-> extractResourceInfo(row, columns).ResourceName,
    MeterCategory |-> getStringFromRow(row, columns, "MeterCategory"),
    MeterSubCategory |-> getStringFromRow(row, columns, "MeterSubCategory"),
    ChargeType |-> getStringFromRow(row, columns, "ChargeType"),
    PricingModel |-> getStringFromRow(row, columns, "PricingModel"),
    Cost |-> parseCost(row[costIdx + 1]),
    Currency |-> cfg.Currency ]

\* parseResponse: the loop over the rows, from row i on.
RECURSIVE ParseRows(_, _, _, _, _, _)
ParseRows(rows, i, columns, costIdx, dateIdx, sub) ==
  IF i > Len(rows) THEN << >>
  ELSE (IF Len(rows[i]) <= costIdx \/ Len(rows[i]) <= dateIdx
          THEN << >>
          ELSE << parseRow(rows[i], columns, costIdx, dateIdx, sub) >>)
       \o ParseRows(rows, i + 1, columns, costIdx, dateIdx, sub)

parseResponse(result, sub) ==
  IF ~result.hasProperties \/ ~result.hasRows THEN << >>
  ELSE IF ~HasColumn(result.Columns, "Cost") \/ ~HasColumn(result.Columns, "UsageDate")
    THEN << >>
  ELSE ParseRows(result.Rows, 1, result.Columns,
                 ColumnIndex(result.Columns, "Cost"),
                 ColumnIndex(result.Columns, "UsageDate"), sub)

\* Rows of a response: a cost, a date and a dimension in well-formed and in
\* malformed shapes, and rows that are cut short.
ResponseRows ==
  { << Cell("float64", 1050), Cell("int", 20260115), Cell("string", << "v", "m" >>) >>,
    << Cell("string", << "1", "2", ".", "5" >>),
       Cell("string", << "2", "0", "2", "6", "-", "0", "1", "-", "1", "6" >>), Cell("nil", 0) >>,
    << Cell("int", 7), Cell("string", << "2", "0", "2", "6", "0", "1" >>), Cell("string", << "a", "/", "b" >>) >>,
    << Cell("nil", 0), Cell("string", << "n", "o" >>), Cell("string", << >>) >>,
    << Cell("float64", 300), Cell("float64", 20260117) >>,
    << Cell("float64", 1050) >>,
    << >> }

\* Column lists of a response: complete in both orders, without Cost,
\* without UsageDate, empty, with a column that has no name, and with two
\* columns named Cost.
ResponseColumns ==
  { << Column("Cost"), Column("UsageDate"), Column("ServiceName") >>,
    << Column("UsageDate"), Column("Cost"), Column("ResourceId") >>,
    << Column("Cost"), Column("UsageDate") >>,
    << Column("UsageDate"), Column("ServiceName") >>,
    << Column("Cost"), Column("ServiceName") >>,
    << >>,
    << [hasName |-> FALSE, name |-> ""], Column("Cost"), Column("UsageDate") >>,
    << Column("Cost"), Column("UsageDate"), Column("Cost") >> }

\* armcostmanagement.QueryResult: Properties and Rows can be nil.
QueryResults ==
  { [hasProperties |-> FALSE, hasRows |-> FALSE, Columns |-> << >>, Rows |-> << >>] }
  \cup { [hasProperties |-> TRUE, hasRows |-> FALSE, Columns |-> c, Rows |-> << >>] :
           c \in ResponseColumns }
  \cup { [hasProperties |-> TRUE, hasRows |-> TRUE, Columns |-> c, Rows |-> r] :
           c \in ResponseColumns, r \in SeqsUpTo(ResponseRows, MaxRows) }

InitParse ==
  /\ InitCollector
  /\ \E result \in QueryResults, i \in 1..NumSubs :
       fn = [name |-> "", arg |-> << result, cfg.Subscriptions[i] >>, res |-> << >>]

\* queryCostsForSubscriptionInternal: records := c.parseResponse(result, sub)
CallParseResponse ==
  /\ fn.name = ""
  /\ fn' = [fn EXCEPT !.name = "parseResponse",
                      !.res = parseResponse(fn.arg[1], fn.arg[2])]
  /\ UNCHANGED << store, mu, now, snaps, schedVars, readerVars, qc, bo >>

NextParse == CallParseResponse

SpecParse == InitParse /\ [][NextParse]_vars

\* The scheduler with Prometheus scrapes going on.
NextCollect ==
  \/ Next
  \/ CollectRLock
  \/ CollectEmit

SpecCollect == Init /\ [][NextCollect]_vars

\* The scheduler with a scrape that is followed send by send.
NextScrape ==
  \/ Next
  \/ ScrapeRLock
  \/ ScrapeSend
  \/ ScrapeReturn
  \/ ConsumerReceive

SpecScrape == Init /\ [][NextScrape]_vars

\* The scheduler with /health requests going on.
NextHealth ==
  \/ Next
  \/ HealthRequest
  \/ HandleHealth

SpecHealth == Init /\ [][NextHealth]_vars

\* The scheduler with /ready requests going on.
NextReady ==
  \/ Next
  \/ HandleReadyIsReady
  \/ HandleReadyLastError

SpecReady == Init /\ [][NextReady]_vars

\* The scheduler with /ready and index-page requests going on.
NextProbes ==
  \/ Next
  \/ HandleReadyIsReady
  \/ HandleReadyLastError
  \/ HandleIndex

SpecProbes == Init /\ [][NextProbes]_vars

TypeOK ==
  /\ mu.w \in {0} \cup Threads
  /\ queryCalls \in 0..MaxCycles
  /\ Len(snaps) <= MaxCycles + 1

\* ------------------------------------------------------------------- claims
Min(a, b) == IF a <= b THEN a ELSE b

\* The completed cycles, as indices into the history.
Cycles == 2..Len(snaps)

\* C1: single-flight.  At most one refresh cycle is executing at any time and
\* the high-water mark of concurrent QueryCosts calls never exceeds 1.
C1_SingleFlight ==
  /\ Cardinality({k \in Threads : Refreshing(k)}) <= 1
  /\ InFlight(pc) <= 1
  /\ maxInFlight <= 1

\* A cycle started by a tick is in flight, after a second StartBackgroundRefresh
\* call found the flag set and returned.
C1_Witness ==
  \E j, k \in Threads :
    /\ pc[j] = "skipped"
    /\ pc[k] = "query"
    /\ looping[k]

\* C2: partial-failure tolerance.  Every cycle in which at least one account
\* failed and at least one succeeded returns a nil error and ends ready, with
\* lastError nil and RecordCount the number of rows of the succeeding accounts
\* capped at MaxRecordsToCache.
C2_PartialFailureTolerated ==
  \A i \in Cycles :
    (snaps[i].cycle.failed >= 1 /\ snaps[i].cycle.succeeded >= 1)
      => /\ snaps[i].cycle.err = Nil
         /\ snaps[i].store.isReady
         /\ snaps[i].store.lastError = Nil
         /\ Len(snaps[i].store.lastRecords)
              = Min(snaps[i].cycle.rows, MaxRecordsToCache)

\* C3: all-fail escalation.  A cycle in which every account failed returns a
\* non-nil error and ends not ready with a non-nil lastError.
C3_AllFailEscalates ==
  \A i \in Cycles :
    snaps[i].cycle.failed = NumSubs
      => /\ snaps[i].cycle.err # Nil
         /\ ~snaps[i].store.isReady
         /\ snaps[i].store.lastError # Nil

\* A cycle in which every account failed has completed.
C3_Witness ==
  \E i \in Cycles : snaps[i].cycle.failed = NumSubs /\ NumSubs > 1

\* A successful cycle that stored records, directly followed by a failed one.
FailureAfterData(i) ==
  /\ i \in Cycles
  /\ i - 1 \in Cycles
  /\ snaps[i - 1].cycle.err = Nil
  /\ Len(snaps[i - 1].store.lastRecords) > 0
  /\ snaps[i].cycle.err # Nil

C7_Truncation ==
  /\ RecordCount <= MaxRecordsToCache
  /\ \A i \in Cycles :
       /\ Len(snaps[i].store.lastRecords) <= MaxRecordsToCache
       /\ snaps[i].cycle.err = Nil
            => /\ Len(snaps[i].store.lastRecords)
                    = Min(snaps[i].cycle.received, MaxRecordsToCache)
               /\ snaps[i].store.isReady

\* A cycle whose provider returned more rows than the cap has completed.
C7_Witness ==
  \E i \in Cycles :
    /\ snaps[i].cycle.received > MaxRecordsToCache
    /\ Len(snaps[i].store.lastRecords) = MaxRecordsToCache

\* C8: no torn snapshot for a scrape.  What one Collect call emitted is what
\* the store held after construction or after one completed refresh cycle.
C8_CollectNotTorn ==
  collectOut # << >>
    => \E i \in 1..Len(snaps) : collectOut[1] = snaps[i].emitted

\* A scrape holds the read lock while a refresh cycle waits to write, after an
\* earlier scrape emitted the result of a completed cycle.
C8_Witness ==
  /\ cpc = "locked"
  /\ \E k \in Threads : pc[k] = "lock"
  /\ collectOut # << >>
  /\ collectOut[1].lastScrape # ZeroTime

\* C9: no snapshot mix for probe readers.  The values one /ready request or
\* one index-page request has read are all values of one and the same snapshot.
C9_ProbesSeeOneSnapshot ==
  /\ (rpc = "idle" /\ Len(readyReq.reads) = 2)
       => \E i \in 1..Len(snaps) :
            /\ snaps[i].store.isReady = readyReq.reads[1]
            /\ snaps[i].store.lastError = readyReq.reads[2]
  /\ indexReq.done
       => \E i \in 1..Len(snaps) :
            /\ snaps[i].store.isReady = indexReq.reads[1]
            /\ snaps[i].store.lastScrape = indexReq.reads[2]
            /\ Len(snaps[i].store.lastRecords) = indexReq.reads[3]

\* C10: cancellation stops scheduling.  Once the context is cancelled, a
\* background loop waiting in its select starts no new refresh cycle.
C10_NoCycleAfterCancel ==
  [][\A k \in Threads :
       (ctxDone /\ looping[k] /\ pc[k] = "select") => pc'[k] # "query"]_vars

\* The accounts of cycle c whose query returned the cancellation error.
CancelledAccounts(c) ==
  {j \in 1..Len(c.errors) : c.errors[j].cause = ContextCanceled}

\* Cycle c began before the cancellation and was interrupted by it.
Interrupted(c) == ~c.ctxAtStart /\ CancelledAccounts(c) # {}

\* C12: shutdown does not corrupt the store.  A refresh cycle interrupted by
\* cancellation leaves the records of the last completed cycle in place.
C12_InterruptedKeepsRecords ==
  \A i \in Cycles :
    (i - 1 \in Cycles /\ Interrupted(snaps[i].cycle))
      => snaps[i].store.lastRecords = snaps[i - 1].store.lastRecords

\* Cycle c began before the cancellation and ended in error with nothing
\* but cancellation errors.
CancelledOnly(c) ==
  /\ Interrupted(c)
  /\ c.err # Nil
  /\ CancelledAccounts(c) = 1..Len(c.errors)

\* C13: cancellation is not an error for metrics purposes.  A cycle that
\* ended only because of cancellation leaves the scrape-error counter,
\* lastError and ready as they were.
C13_CancelNotAnError ==
  \A i \in Cycles :
    CancelledOnly(snaps[i].cycle)
      => /\ snaps[i].store.scrapeErrorsTotal = snaps[i - 1].store.scrapeErrorsTotal
         /\ snaps[i].store.lastError = snaps[i - 1].store.lastError
         /\ snaps[i - 1].store.isReady => snaps[i].store.isReady

\* C19: a redundant start is a no-op.  A StartBackgroundRefresh call made
\* while the flag is held returns without a provider call and without a
\* change to the store, the flag, the ticker or the running cycle, and the
\* call is not queued: it never does anything later.
C19_RedundantStartIsNoOp ==
  [][\A k \in Threads :
       /\ (pc[k] = "idle" /\ refreshStarted /\ pc'[k] # "idle")
            => /\ pc'[k] = "skipped"
               /\ \A j \in Threads \ {k} : pc'[j] = pc[j]
               /\ UNCHANGED << store, mu, refreshStarted, ctxDone, looping,
                               tickPending, tickerOn, rf, queryCalls,
                               maxInFlight, count, snaps >>
       /\ pc[k] = "skipped" => pc'[k] = "skipped"]_vars

\* A second call has returned as a no-op while the loop of the first is
\* active and has run a cycle of its own since.
C19_Witness ==
  \E k, j \in Threads :
    /\ pc[k] = "skipped"
    /\ looping[j]
    /\ pc[j] \in {"select", "parked"}
    /\ ~ctxDone
    /\ queryCalls = 2

\* Thread k holds or is about to release the write lock: the field
\* replacement phase of refresh.
Writing(k) == pc[k] \in {"wScrape", "wDuration", "wError", "wRecords", "wReady"}

\* C20: readers are not blocked by an in-flight refresh.  While a provider
\* query is in flight nobody holds the write lock, so a reader takes the read
\* lock without waiting; the write lock is held only by a refresh in its
\* field replacement phase.
C20_QueryHoldsNoLock ==
  /\ (\E k \in Threads : pc[k] = "query") => (mu.w = 0 /\ CanRLock)
  /\ \A k \in Threads : mu.w = k <=> Writing(k)

\* A scrape holds the read lock while the provider query of a later cycle is
\* in flight, after an earlier cycle stored its result.
C20_Witness ==
  /\ cpc = "locked"
  /\ \E k \in Threads : pc[k] = "query" /\ rf[k].idx = 2
  /\ Len(snaps) = 2

\* The account the followed QueryCosts call is querying.
CurrentSub == cfg.Subscriptions[qc.idx]

\* The error QueryCosts recorded last.
LastQueryError == qc.errors[Len(qc.errors)]

\* C11: cancellation during a backoff wait.  The cancellation wakes the
\* waiting retry at once; the retry then returns the context's error without
\* another attempt and without waiting further, and the error recorded for
\* the account carries its name and ID.
C11_CancelDuringWait ==
  [][/\ (bo.pc = "wait" /\ ~ctxDone /\ ctxDone') => bo'.pc = "woken"
     /\ (bo.pc \in {"wait", "woken"} /\ ctxDone /\ bo' # bo)
          => /\ bo'.pc = "return"
             /\ bo'.last = ContextCanceled
             /\ bo'.attempts = bo.attempts
             /\ bo'.elapsed = bo.elapsed
     /\ (bo.pc = "return" /\ bo.exit = "select" /\ qc' # qc)
          => qc' = [qc EXCEPT !.errors =
                      Append(@, [Name |-> CurrentSub.Name, ID |-> CurrentSub.ID,
                                 cause |-> ContextCanceled])]]_vars

\* A retry that was cancelled while it waited after two failed attempts has
\* returned, and QueryCosts holds the cancellation error for the account.
C11_Witness ==
  /\ bo.pc = "done"
  /\ bo.exit = "select"
  /\ bo.attempts = 2
  /\ LastQueryError = WrapRetryError(CurrentSub, ContextCanceled)

\* C14: retry bound.  No attempt starts after MaxRetryElapsedTime has
\* elapsed, the retry is over within MaxRetryElapsedTime plus one call
\* timeout, and a retry that gave up without cancellation did so with less
\* than the longest wait left in the budget and returns an error that names
\* the account by name and ID.
C14_RetryBound ==
  /\ bo.pc = "op" => bo.elapsed <= MaxRetryElapsedTime
  /\ bo.elapsed <= MaxRetryElapsedTime + APITimeout
  /\ (bo.pc \in {"return", "done"} /\ bo.exit = "stop" /\ bo.last = ApiError)
       => /\ bo.attempts >= 1
          /\ 2 * (MaxRetryElapsedTime - bo.elapsed) < 3 * MaxRetryInterval
          /\ bo.pc = "done"
               => LastQueryError = [Name |-> CurrentSub.Name,
                                    ID |-> CurrentSub.ID, cause |-> ApiError]

\* Every attempt for an account failed, the context was never cancelled, and
\* the retry has given up after the budget.
C14_Witness ==
  /\ ~ctxDone
  /\ bo.pc = "done"
  /\ bo.exit = "stop"
  /\ bo.attempts > 2
  /\ bo.elapsed > MaxRetryElapsedTime
  /\ LastQueryError.Name = CurrentSub.Name

\* C15: transient failures are invisible.  Once an attempt has succeeded the
\* retry returns the rows of that attempt with a nil error, however many
\* attempts failed before, and QueryCosts appends these rows and records no
\* error for the account.
C15_TransientInvisible ==
  (bo.attempts >= 1 /\ bo.out.ok)
    => /\ bo.pc \in {"return", "done"}
       /\ bo.exit = "success"
       /\ bo.last = Nil
       /\ bo.result = bo.out.rows
       /\ bo.pc = "done"
            => /\ \A j \in 1..Len(qc.errors) : qc.errors[j].Name # CurrentSub.Name
               /\ Len(qc.allRecords) >= Len(bo.result)
               /\ SubSeq(qc.allRecords, Len(qc.allRecords) - Len(bo.result) + 1,
                         Len(qc.allRecords)) = bo.result

\* An account's query has succeeded with rows at its third attempt.
C15_Witness ==
  /\ bo.pc = "done"
  /\ bo.exit = "success"
  /\ bo.attempts = 3
  /\ Len(bo.result) > 0
  /\ ~ctxDone

\* Nothing of the pipeline is running: no StartBackgroundRefresh call is
\* inside refresh, no retry is in progress, every goroutine has exited with
\* its ticker stopped, and the flag is false.
Quiescent ==
  /\ ~refreshStarted
  /\ \A k \in Threads :
       /\ pc[k] \in {"idle", "skipped", "exited"}
       /\ rf[k].unit.pc = "idle"
       /\ ~tickerOn[k]

\* C16: the pipeline terminates on cancellation.  Under fair scheduling,
\* once the context is cancelled the cycle in flight finishes, the retry of
\* every account returns, the loop exits and refreshStarted is false again.
C16_ShutdownTerminates == ctxDone ~> Quiescent

\* The pipeline has come to rest after a cancellation that interrupted a
\* cycle of the loop.
C16_Witness ==
  /\ ctxDone
  /\ Quiescent
  /\ \E k \in Threads : pc[k] = "exited"
  /\ Len(snaps) = 3
  /\ Interrupted(snaps[3].cycle)

\* The label-value tuple of a record.
TupleOf(record) == extractLabelValues(record, costMetricLabelNames)

\* Sum of the costs of the records from index i on that have tuple t.
RECURSIVE SumOfTuple(_, _, _)
SumOfTuple(records, t, i) ==
  IF i > Len(records) THEN 0
  ELSE (IF TupleOf(records[i]) = t THEN records[i].Cost ELSE 0)
       + SumOfTuple(records, t, i + 1)

\* The series as the claim defines them: one per tuple that occurs, with the
\* sum of the costs of the records that have the tuple.
SeriesByTuple(records) ==
  { [labelValues |-> t, cost |-> SumOfTuple(records, t, 1)] :
      t \in {TupleOf(records[i]) : i \in 1..Len(records)} }

\* C17: aggregation correctness.  For every stored sequence of records and
\* every permutation of it, Collect emits exactly one cost series per tuple
\* that occurs, no two series with the same tuple, each with the sum of the
\* costs of the records that have its tuple.
C17_AggregationCorrect ==
  collectOut # << >>
    => /\ collectOut[1].series = SeriesByTuple(store.lastRecords)
       /\ \A s, t \in collectOut[1].series :
            s.labelValues = t.labelValues => s = t
       /\ \A p \in Permutations(1..Len(store.lastRecords)) :
            Aggregate([i \in 1..Len(store.lastRecords) |-> store.lastRecords[p[i]]])
              = SeriesByTuple(store.lastRecords)

\* The field of CostRecord each recognised label name stands for.
FieldOfLabel ==
  [ provider |-> "Provider", account_name |-> "AccountName",
    account_id |-> "AccountID", service |-> "Service",
    resource_type |-> "ResourceType", resource_group |-> "ResourceGroup",
    resource_location |-> "ResourceLocation", resource_id |-> "ResourceID",
    resource_name |-> "ResourceName", meter_category |-> "MeterCategory",
    meter_subcategory |-> "MeterSubCategory", charge_type |-> "ChargeType",
    pricing_model |-> "PricingModel", date |-> "Date", currency |-> "Currency" ]

\* C18: label projection shape.  buildMetricLabels returns provider,
\* account_name, account_id, service, then the label_name of each group in
\* configuration order if group_by is enabled, then date, currency;
\* extractLabelValues returns as many values in the same order, the record's
\* field for a recognised name and the empty string for any other.
C18_LabelShape ==
  /\ fn.name = "buildMetricLabels"
       => LET c == fn.arg[1]
              n == IF c.GroupByEnabled THEN Len(c.Groups) ELSE 0
          IN /\ Len(fn.res) = 4 + n + 2
             /\ SubSeq(fn.res, 1, 4)
                  = << "provider", "account_name", "account_id", "service" >>
             /\ \A i \in 1..n : fn.res[4 + i] = c.Groups[i].LabelName
             /\ SubSeq(fn.res, 5 + n, 6 + n) = << "date", "currency" >>
  /\ fn.name = "extractLabelValues"
       => LET record == fn.arg[1]
              names == fn.arg[2]
          IN /\ Len(fn.res) = Len(names)
             /\ \A i \in 1..Len(names) :
                  fn.res[i] = IF names[i] \in DOMAIN FieldOfLabel
                                THEN record[FieldOfLabel[names[i]]]
                                ELSE ""

\* The values of a record have been extracted for an enabled configuration
\* of two groups, one of them with a label name that is not a dimension.
C18_Witness ==
  /\ fn.name = "extractLabelValues"
  /\ Len(fn.res) = 8
  /\ fn.arg[2][5] = "team"
  /\ fn.res[5] = ""
  /\ fn.res[6] = "rg1"

\* The followed Collect call is at a send that cannot proceed: the channel is
\* full and its consumer has not received.
SendBlocked ==
  /\ ~CanSend
  /\ \/ scrape.pc = "costs" /\ scrape.costs # {}
     \/ scrape.pc \in DOMAIN AfterPos /\ MetricAt(scrape.pc, store) # << >>

\* C21: readers hold the shared lock only long enough to read.  A reader that
\* holds the read lock is never waiting for anything, so a refresh cycle that
\* waits for the write lock is never kept waiting by a reader whose consumer
\* has stalled.
C21_ReadersWaitOnlyForLock ==
  /\ "scrape" \in mu.r => ~SendBlocked
  /\ (\E k \in Threads : pc[k] = "lock" /\ mu.w = 0)
       => ~("scrape" \in mu.r /\ SendBlocked)

\* C22: /health is always healthy.  Whatever the state of the collector, a
\* /health request is answered without waiting, with status 200 and body
\* {"status":"healthy"}, and handling it leaves the collector as it is.
C22_HealthAlwaysHealthy ==
  [][healthReq.pc = "handling"
       => /\ ENABLED HandleHealth
          /\ healthReq' # healthReq
               => /\ healthReq'.status = 200
                  /\ healthReq'.body = "{\"status\":\"healthy\"}"
                  /\ UNCHANGED << store, mu, snaps, schedVars >>]_vars

\* A /health request has been answered with 200 while a refresh was running
\* after a cycle that had failed.
C22_Witness ==
  /\ healthReq.pc = "idle"
  /\ healthReq.status = 200
  /\ healthReq.during = [cycle |-> "failed", refreshing |-> TRUE]
  /\ ~store.isReady

\* C23: /ready follows the last completed cycle.  Whenever a /ready request
\* is answered, the answer is 200 with body {"status":"ready"} if the most
\* recent completed refresh cycle succeeded, and 503 if no cycle has
\* completed yet or the most recent one ended in error.
C23_ReadyFollowsLastCycle ==
  [][(readyReq' # readyReq /\ readyReq'.status # 0)
       => /\ readyReq'.status \in {200, 503}
          /\ readyReq'.status = 200 <=> Phase.cycle = "succeeded"
          /\ readyReq'.status = 503 <=> Phase.cycle \in {"none", "failed"}
          /\ readyReq'.body = "{\"status\":\"ready\"}" <=> readyReq'.status = 200
          /\ snaps' = snaps]_vars

\* The collector went from not ready to ready and back to not ready, and a
\* /ready request that had seen it ready has been answered 503 after the
\* failed cycle.
C23_Witness ==
  /\ Len(snaps) = 3
  /\ snaps[2].store.isReady
  /\ ~snaps[3].store.isReady
  /\ rpc = "idle"
  /\ readyReq.reads = << TRUE, "all subscriptions failed" >>
  /\ readyReq.status = 503

\* The metrics the followed Collect call has sent so far, in order.
Sent == scrape.gathered \o scrape.buf

\* The metrics of this name among them.
SentNamed(name) == {i \in 1..Len(Sent) : Sent[i].name = name}

\* C24: the up metric.  The up metric a Collect call emits is 1 if the most
\* recent completed provider query succeeded, and 0 if it failed or if no
\* query has completed.
C24_UpFollowsLastQuery ==
  "scrape" \in mu.r
    => \A i \in SentNamed("up") :
         Sent[i].value = IF Phase.cycle = "succeeded" THEN 1 ELSE 0

\* C25: the last-scrape timestamp is that of the last successful scrape.  A
\* refresh cycle that ends in error leaves lastScrape as it was, and a Collect
\* call emits the last-scrape metric only if some cycle has succeeded.
C25_LastScrapeIsLastSuccess ==
  /\ \A i \in Cycles :
       snaps[i].cycle.err # Nil
         => snaps[i].store.lastScrape = snaps[i - 1].store.lastScrape
  /\ ("scrape" \in mu.r
        /\ SentNamed("cloud_cost_exporter_last_scrape_timestamp_seconds") # {})
       => \E i \in Cycles : snaps[i].cycle.err = Nil

\* C26: the call timeout is shorter than the retry budget.  Every
\* configuration that validate accepts has an API timeout strictly shorter
\* than MaxRetryElapsedTime.
C26_TimeoutShorterThanBudget ==
  (fn.name = "validate" /\ fn.res.err = Nil)
    => fn.res.cfg.APITimeout * Second < MaxRetryElapsedTime

\* The conditions the claim lists for a configuration.
ListedConditions(c) ==
  /\ Len(c.Subscriptions) >= 1
  /\ \A i \in 1..Len(c.Subscriptions) :
       c.Subscriptions[i].ID # "" /\ c.Subscriptions[i].Name # ""
  /\ c.RefreshInterval >= 60
  /\ c.DateRange.DaysToQuery >= 1
  /\ 0 <= c.DateRange.EndDateOffset
  /\ 1 <= c.HTTPPort /\ c.HTTPPort <= 65535
  /\ 0 < c.APITimeout /\ c.APITimeout <= 300

\* C28: configuration validity.  validate returns an error unless the
\* configuration has at least one subscription, all with non-empty ID and
\* name, refresh_interval >= 60, days_to_query >= 1, end_date_offset >= 0,
\* a port in 1..65535 and an API timeout in 1..300; Load returns no
\* configuration when it returns an error, and otherwise one that meets
\* these conditions.
C28_ConfigurationValidity ==
  /\ (fn.name = "validate" /\ fn.res.err = Nil) => ListedConditions(fn.res.cfg)
  /\ fn.name = "Load"
       => IF fn.res.err # Nil
            THEN fn.res.cfg = << >>
            ELSE Len(fn.res.cfg) = 1 /\ ListedConditions(fn.res.cfg[1])

\* Load has returned a configuration whose refresh interval is the floor and
\* whose API timeout is the ceiling.
C28_Witness ==
  /\ fn.name = "Load"
  /\ fn.res.err = Nil
  /\ fn.res.cfg[1].RefreshInterval = 60
  /\ fn.res.cfg[1].APITimeout = 300

\* The value of an integer setting by precedence: the variable if it is
\* set, otherwise the file if it has the key, otherwise the default.
IntByPrecedence(file, env, key, var, default) ==
  IF var # "" /\ env[var] # << >> THEN Atoi(env[var]).val
  ELSE IF file[key] # << >> THEN file[key][1]
  ELSE default

\* C29: configuration precedence.  In a configuration that Load returns,
\* every integer setting has the value of its environment variable if that
\* is set, otherwise the value written in the YAML file, otherwise the
\* default.
C29_Precedence ==
  (fn.name = "Load" /\ fn.res.err = Nil)
    => LET file == fn.arg[1]
           env == fn.arg[2]
           c == fn.res.cfg[1]
       IN /\ c.RefreshInterval
               = IntByPrecedence(file, env, "refresh_interval",
                                 "AZURE_COST_REFRESH_INTERVAL", 3600)
          /\ c.HTTPPort
               = IntByPrecedence(file, env, "http_port", "AZURE_COST_HTTP_PORT", 8080)
          /\ c.DateRange.EndDateOffset
               = IntByPrecedence(file, env, "end_date_offset",
                                 "AZURE_COST_END_DATE_OFFSET", 1)
          /\ c.DateRange.DaysToQuery
               = IntByPrecedence(file, env, "days_to_query",
                                 "AZURE_COST_DAYS_TO_QUERY", 7)
          /\ c.APITimeout = IntByPrecedence(file, env, "api_timeout", "", 30)

\* The metric names every Collect call emits.
AlwaysEmitted ==
  { "up", "cloud_cost_exporter_scrape_duration_seconds",
    "cloud_cost_exporter_records_count", "cloud_cost_exporter_build_info" }

\* Whether b holds, as a number.
Count(b) == IF b THEN 1 ELSE 0

\* C27: the metrics of one Collect call.  A Collect call that has sent its
\* last metric has sent up, scrape duration, record count and build info
\* once each, the last-scrape timestamp exactly if some refresh cycle has
\* completed, the scrape-error counter exactly if some cycle has failed, and
\* one cost series per distinct label tuple of the stored records, and
\* nothing else: 4 metrics before any refresh, k+5 after a first successful
\* refresh with k tuples, 6 after a first failed refresh.
C27_MetricsOfOneCollect ==
  scrape.pc = "return"
    => LET tuples == {TupleOf(store.lastRecords[i]) : i \in 1..Len(store.lastRecords)}
           completed == Len(snaps) > 1
           failed == \E i \in Cycles : snaps[i].cycle.err # Nil
       IN /\ \A name \in AlwaysEmitted : Cardinality(SentNamed(name)) = 1
          /\ Cardinality(SentNamed("cloud_cost_exporter_last_scrape_timestamp_seconds"))
               = Count(completed)
          /\ Cardinality(SentNamed("cloud_cost_exporter_scrape_errors_total"))
               = Count(failed)
          /\ {Sent[i].labelValues : i \in SentNamed("cloud_cost_daily")} = tuples
          /\ Cardinality(SentNamed("cloud_cost_daily")) = Cardinality(tuples)
          /\ Len(Sent) = 4 + Count(completed) + Count(failed) + Cardinality(tuples)

\* The position of the column that the column map gives a name: the last
\* column of that name.
PositionOf(columns, name) ==
  CHOOSE i \in 1..Len(columns) :
    /\ columns[i].hasName /\ columns[i].name = name
    /\ \A j \in (i + 1)..Len(columns) : ~(columns[j].hasName /\ columns[j].name = name)

\* The date each cell of the responses stands for: YYYY-MM-DD from its first
\* eight digits, and with fewer than eight digits the digits it has.
DateTable ==
  { << Cell("int", 20260115), "2026-01-15" >>,
    << Cell("float64", 20260117), "2026-01-17" >>,
    << Cell("string", << "2", "0", "2", "6", "-", "0", "1", "-", "1", "6" >>), "2026-01-16" >>,
    << Cell("string", << "2", "0", "2", "6", "0", "1" >>), "202601" >>,
    << Cell("string", << "n", "o" >>), "" >>,
    << Cell("string", << "1", "2", ".", "5" >>), "125" >>,
    << Cell("string", << "v", "m" >>), "" >>,
    << Cell("string", << "a", "/", "b" >>), "" >>,
    << Cell("string", << >>), "" >>,
    << Cell("float64", 1050), "1050" >>,
    << Cell("float64", 300), "300" >>,
    << Cell("int", 7), "7" >>,
    << Cell("nil", 0), "" >> }

\* C30: parseResponse.  It returns no record when Properties or Rows is nil
\* or when the Cost or the UsageDate column is missing; otherwise it returns,
\* in row order, one record for each row that reaches both columns and none
\* for a shorter row, with the subscription's ID and name, the cost of the
\* row, or 0 if the cost cell is not a number, and the date of the row, or
\* the digits that are left of a malformed one.
C30_ParseResponse ==
  fn.name = "parseResponse"
    => LET result == fn.arg[1]
           sub == fn.arg[2]
       IN IF \/ ~result.hasProperties
             \/ ~result.hasRows
             \/ \A i \in 1..Len(result.Columns) :
                  ~(result.Columns[i].hasName /\ result.Columns[i].name = "Cost")
             \/ \A i \in 1..Len(result.Columns) :
                  ~(result.Columns[i].hasName /\ result.Columns[i].name = "UsageDate")
            THEN fn.res = << >>
            ELSE LET cost == PositionOf(result.Columns, "Cost")
                     date == PositionOf(result.Columns, "UsageDate")
                     long == SelectSeq(result.Rows,
                                       LAMBDA row : Len(row) >= cost /\ Len(row) >= date)
                 IN /\ Len(fn.res) = Len(long)
                    /\ \A i \in 1..Len(long) :
                         /\ fn.res[i].AccountID = sub.ID
                         /\ fn.res[i].AccountName = sub.Name
                         /\ fn.res[i].Cost = IF long[i][cost].t \in {"float64", "int"}
                                               THEN long[i][cost].n ELSE 0
                         /\ << long[i][date], fn.res[i].Date >> \in DateTable

\* A response of a short row and a row with a nil cost and a malformed date
\* has been parsed into one record.
C30_Witness ==
  /\ fn.name = "parseResponse"
  /\ Len(fn.arg[1].Rows) = 2
  /\ fn.arg[1].Rows[1] = << Cell("float64", 1050) >>
  /\ fn.arg[1].Rows[2] = << Cell("nil", 0), Cell("string", << "n", "o" >>), Cell("string", << >>) >>
  /\ Len(fn.res) = 1
  /\ fn.res[1].Cost = 0
  /\ fn.res[1].Date = ""

\* C31: the first refresh is immediate and synchronous.  A call of
\* StartBackgroundRefresh that wins the flag starts a provider query at once;
\* until it returns its ticker does not exist, no tick is buffered and no
\* other provider query starts; it returns only from a completed cycle, with
\* the store written for every query made so far (one query, for the first
\* call).  Afterwards its loop starts a cycle only by receiving a tick, and
\* every tick it receives starts one cycle.
C31_FirstRefreshSynchronous ==
  [][\A k \in Threads :
       /\ (pc[k] = "idle" /\ pc'[k] \notin {"idle", "skipped"})
            => /\ pc'[k] = "query"
               /\ queryCalls' = queryCalls + 1
       /\ (~looping[k] /\ (Refreshing(k) \/ pc[k] = "spawn"))
            => /\ ~tickerOn[k]
               /\ ~tickPending[k]
               /\ queryCalls' = queryCalls
       /\ (pc[k] # "spawn" /\ pc'[k] = "spawn")
            => /\ pc[k] = "wReady"
               /\ Len(snaps') = Len(snaps) + 1
               /\ mu'.w = 0
       /\ (~looping[k] /\ looping'[k])
            => /\ pc[k] = "spawn"
               /\ Len(snaps) = queryCalls + 1
               /\ k = 1 => queryCalls = 1
       /\ (looping[k] /\ pc[k] # "query" /\ pc'[k] = "query")
            => /\ (tickPending[k] /\ ~tickPending'[k]) \/ pc[k] = "ticked"
               /\ queryCalls' = queryCalls + 1
       /\ (tickPending[k] /\ ~tickPending'[k]) => pc'[k] = "query"
       /\ (pc[k] = "ticked" /\ pc'[k] # "ticked") => pc'[k] = "query"
    ]_vars

\* The first call has returned after its cycle, and its loop has completed a
\* second cycle for a tick.
C31_Witness ==
  /\ looping[1]
  /\ pc[1] = "select"
  /\ queryCalls = 2
  /\ Len(snaps) = 3
  /\ ~ctxDone

\* The cycles up to cycle i that ended with a non-nil error.
FailedCyclesUpTo(i) == {j \in 2..i : snaps[j].cycle.err # Nil}

\* C32: error accounting.  The scrape-error counter never decreases; after
\* every cycle it equals the number of cycles so far that ended with a
\* non-nil error, and that is the value a scrape emits; a cycle that ended
\* with a nil error, with failed accounts or truncated records or neither,
\* leaves it unchanged; and nothing changes it between two cycles.
C32_ErrorAccounting ==
  /\ \A i \in Cycles :
       /\ snaps[i].store.scrapeErrorsTotal >= snaps[i - 1].store.scrapeErrorsTotal
       /\ snaps[i].store.scrapeErrorsTotal = Cardinality(FailedCyclesUpTo(i))
       /\ snaps[i].emitted.errorsTotal = Cardinality(FailedCyclesUpTo(i))
       /\ snaps[i].cycle.err = Nil
            => snaps[i].store.scrapeErrorsTotal = snaps[i - 1].store.scrapeErrorsTotal
  /\ store.scrapeErrorsTotal = snaps[Len(snaps)].store.scrapeErrorsTotal

\* A cycle with a failed account and more records than the cap has ended
\* without an error, and the cycle after it has failed.
C32_Witness ==
  /\ Len(snaps) = 3
  /\ snaps[2].cycle.err = Nil
  /\ snaps[2].cycle.failed = 1
  /\ snaps[2].cycle.received > MaxRecordsToCache
  /\ snaps[3].cycle.err # Nil
  /\ store.scrapeErrorsTotal = 1

\* C33: distinct label tuples are never merged.  Any two stored records
\* whose label-value tuples differ are emitted by Collect in two different
\* series, each with the label values of its own records.
C33_DistinctTuplesNotMerged ==
  collectOut # << >>
    => \A i, j \in 1..Len(store.lastRecords) :
         TupleOf(store.lastRecords[i]) # TupleOf(store.lastRecords[j])
           => \E s, t \in collectOut[1].series :
                /\ s # t
                /\ s.labelValues = TupleOf(store.lastRecords[i])
                /\ t.labelValues = TupleOf(store.lastRecords[j])

C35_CancelVisitsRemaining ==
  [][ctxDone
       => /\ (qc'.pc = "returned" /\ qc.pc # "returned") => qc.idx = NumSubs
          /\ qc'.idx # qc.idx
               => /\ qc'.idx = qc.idx + 1
                  /\ bo'.pc = "op"
                  /\ bo'.attempts = 0
          /\ (bo.pc = "op" /\ bo.attempts = 0 /\ bo' # bo)
               => /\ bo'.attempts = 1
                  /\ bo'.pc = "backoff"
                  /\ ~bo'.out.ok
          /\ (bo.pc = "backoff" /\ bo' # bo)
               => /\ bo'.pc = "return"
                  /\ bo'.attempts = bo.attempts
                  /\ bo'.last = ContextCanceled
          /\ (bo.pc = "return" /\ bo' # bo /\ bo.attempts = 1)
               => /\ bo.last # Nil => qc'.errors = Append(qc.errors,
                                         WrapRetryError(cfg.Subscriptions[qc.idx], bo.last))
                  /\ bo.last # Nil => qc'.allRecords = qc.allRecords
          /\ (/\ qc'.pc = "returned"
              /\ qc.pc # "returned"
              /\ Len(qc.errors) < NumSubs
              /\ \E i \in 1..Len(qc.errors) : qc.errors[i].cause = ContextCanceled)
               => qc'.ret.err = Nil
    ]_vars

\* The ticks the loop of call k has received and not yet answered with a
\* cycle.
PendingTicks(k) ==
  (IF tickPending[k] THEN 1 ELSE 0) + (IF pc[k] = "ticked" THEN 1 ELSE 0)

\* The cycles a call has started, with the one that can start without a
\* further tick, are covered by the ticks its ticker has fired and the
\* initial cycle.
TicksCoverCycles ==
  \A k \in Threads :
    /\ count[k].cycles <= count[k].ticks + 1
    /\ count[k].cycles > 0 => count[k].cycles - 1 + PendingTicks(k) <= count[k].ticks
    /\ count[k].cycles = 0 => count[k].ticks = 0

C37_CycleWritesOnce ==
  /\ \A k \in Threads : Refreshing(k) ~> ~Refreshing(k)
  /\ [][\A k \in Threads :
          /\ (Refreshing(k) /\ ~Refreshing(k)')
               => /\ pc[k] = "wReady"
                  /\ mu.w = k
                  /\ mu'.w = 0
                  /\ Len(snaps') = Len(snaps) + 1
                  /\ store'.lastScrape = now
                  /\ store'.lastScrapeDuration = rf[k].duration
                  /\ store'.lastError = rf[k].err
                  /\ store'.lastRecords = rf[k].records
                  /\ store'.isReady = (rf[k].err = Nil)
          /\ (mu.w # k /\ mu'.w = k)
               => /\ pc[k] = "lock"
                  /\ rf[k].idx > NumSubs
                  /\ store' = store
          /\ (mu.w = k /\ mu'.w # k) => ~Refreshing(k)'
          /\ (mu.w = k /\ store' # store) => mu'.w \in {0, k} /\ Writing(k)
          /\ (mu.w = 0 /\ store' # store) => FALSE
    ]_vars

\* A cycle whose accounts were cancelled during their retries has returned
\* after writing the store.
C37_Witness ==
  /\ Len(snaps) = 3
  /\ Interrupted(snaps[3].cycle)
  /\ mu.w = 0
  /\ \A k \in Threads : ~Refreshing(k)
  /\ store = snaps[3].store
  /\ store.lastScrape = now

\* C38: the label names of an accepted configuration are distinct.  The
\* label names NewCostCollector builds from a configuration that Load
\* returned, and so validate accepted, are pairwise distinct.
C38_LabelNamesDistinct ==
  fn.name = "NewCostCollector"
    => \A i, j \in 1..Len(fn.res) : i # j => fn.res[i] # fn.res[j]

====
